---- MODULE Spec2Model ----
(***************************************************************************)
(* Mach-O load-command decoding (src/mach/load_command.rs) and the         *)
(* segment / section / relocation layer (src/mach/segment.rs) of goblin.   *)
(*                                                                         *)
(* Representation.  A buffer is a sequence of bytes (0..255).  A decoded   *)
(* unsigned integer of w bytes is the tuple of its w bytes, least          *)
(* significant first, so that every u32 and u64 value of the program       *)
(* (0x80000000, 0xFFFFFFFF, 2^64-1) is a value of the model and the two    *)
(* byte orders, the widening casts (as u64), the truncating casts (as u32) *)
(* and wrapping addition are computed on the bytes, as the build computes  *)
(* them.  A usize that is used as an index is a natural number.            *)
(***************************************************************************)
EXTENDS Integers, Sequences, FiniteSets, TLC

----------------------------------------------------------------------------
(* Bytes and words *)

Byte == 0..255

RECURSIVE Rev(_)
Rev(s) == IF s = <<>> THEN <<>> ELSE Rev(Tail(s)) \o <<Head(s)>>

Zeros(n) == [i \in 1..n |-> 0]

\* The word of w bytes whose value is the natural number n (n < 2^24).
Word(n, w) ==
    [i \in 1..w |-> IF i = 1 THEN n % 256
                    ELSE IF i = 2 THEN (n \div 256) % 256
                    ELSE IF i = 3 THEN (n \div 65536) % 256
                    ELSE 0]

\* Every index of the model is below Huge; a word of a larger value converts to Huge.
Huge == 256 * 256 * 256

IsSmall(v) == \A i \in 1..Len(v) : i > 3 => v[i] = 0

Low(v) ==
    (IF Len(v) >= 1 THEN v[1] ELSE 0)
    + (IF Len(v) >= 2 THEN 256 * v[2] ELSE 0)
    + (IF Len(v) >= 3 THEN 65536 * v[3] ELSE 0)

\* `v as usize`, for a word used as a length or an index
ToNat(v) == IF IsSmall(v) THEN Low(v) ELSE Huge

\* bitwise or of two bytes
RECURSIVE OrBits(_, _, _)
OrBits(a, b, n) ==
    IF n = 0 THEN 0
    ELSE (IF a % 2 = 1 \/ b % 2 = 1 THEN 1 ELSE 0)
         + 2 * OrBits(a \div 2, b \div 2, n - 1)

\* x | y on words of the same width
BitOr(x, y) == [i \in 1..Len(x) |-> OrBits(x[i], y[i], 8)]

\* `v as u64` of a u32, and `v as u32` of a u64
Widen(v) == v \o Zeros(8 - Len(v))
Truncate(v) == SubSeq(v, 1, 4)

\* x + y on words of the same width: the wrapped sum and the carry out of the
\* top byte
RECURSIVE AddFrom(_, _, _, _)
AddFrom(x, y, i, carry) ==
    IF i > Len(x) THEN [sum |-> <<>>, carry |-> carry]
    ELSE LET t == x[i] + y[i] + carry
             rest == AddFrom(x, y, i + 1, t \div 256)
         IN  [sum |-> <<t % 256>> \o rest.sum, carry |-> rest.carry]

WrappingAdd(x, y) == AddFrom(x, y, 1, 0)

----------------------------------------------------------------------------
(* scroll: bounds-checked reads of a byte slice *)

Little == "Little"
Big == "Big"
Endians == {Little, Big}

\* &s[o..]
SliceFrom(s, o) == SubSeq(s, o + 1, Len(s))

\* An integer field of w bytes at offset o of slice s, in byte order le.
ReadInt(s, o, w, le) ==
    IF le = Little THEN SubSeq(s, o + 1, o + w) ELSE Rev(SubSeq(s, o + 1, o + w))

\* A field of a derived layout: <<name, width, isInt>>
U32(name) == <<name, 4, TRUE>>
U64(name) == <<name, 8, TRUE>>
Arr(name, n) == <<name, n, FALSE>>

RECURSIVE SumWidths(_, _)
SumWidths(layout, n) == IF n = 0 THEN 0 ELSE SumWidths(layout, n - 1) + layout[n][2]

\* offset of field i of the layout
FieldOff(layout, i) == SumWidths(layout, i - 1)
LayoutSize(layout) == SumWidths(layout, Len(layout))

\* The number of leading fields of the layout that lie inside a slice of n bytes:
\* gread_with fails at the first field that does not.
RECURSIVE FieldsRead(_, _, _)
FieldsRead(layout, n, i) ==
    IF i > Len(layout) \/ FieldOff(layout, i) + layout[i][2] > n THEN i - 1
    ELSE FieldsRead(layout, n, i + 1)

\* #[derive(Pread)]: the fields are read in order, each with a bounds-checked
\* gread_with; ok iff all of them fit, used = the bytes of the slice that were read.
ReadStruct(s, layout, le) ==
    LET k == FieldsRead(layout, Len(s), 1)
    IN  [ok |-> k = Len(layout),
         used |-> SumWidths(layout, k),
         val |-> [nm \in {layout[i][1] : i \in 1..k} |->
                    LET i == CHOOSE j \in 1..k : layout[j][1] = nm
                    IN  IF layout[i][3]
                        THEN ReadInt(s, FieldOff(layout, i), layout[i][2], le)
                        ELSE SubSeq(s, FieldOff(layout, i) + 1,
                                    FieldOff(layout, i) + layout[i][2])]]

----------------------------------------------------------------------------
(* Record layouts: the fields of each #[derive(Pread)] struct, in order *)

Hdr == <<U32("cmd"), U32("cmdsize")>>

LoadCommandHeader == Hdr

Section32 ==
    <<Arr("sectname", 16), Arr("segname", 16), U32("addr"), U32("size"),
      U32("offset"), U32("align"), U32("reloff"), U32("nreloc"), U32("flags"),
      U32("reserved1"), U32("reserved2")>>

Section64 ==
    <<Arr("sectname", 16), Arr("segname", 16), U64("addr"), U64("size"),
      U32("offset"), U32("align"), U32("reloff"), U32("nreloc"), U32("flags"),
      U32("reserved1"), U32("reserved2"), U32("reserved3")>>

SegmentCommand32 ==
    Hdr \o <<Arr("segname", 16), U32("vmaddr"), U32("vmsize"), U32("fileoff"),
             U32("filesize"), U32("maxprot"), U32("initprot"), U32("nsects"),
             U32("flags")>>

SegmentCommand64 ==
    Hdr \o <<Arr("segname", 16), U64("vmaddr"), U64("vmsize"), U64("fileoff"),
             U64("filesize"), U32("maxprot"), U32("initprot"), U32("nsects"),
             U32("flags")>>

Fvmlib == <<U32("fvmlib.name"), U32("fvmlib.minor_version"), U32("fvmlib.header_addr")>>

FvmlibCommand == Hdr \o Fvmlib

Dylib ==
    <<U32("dylib.name"), U32("dylib.timestamp"), U32("dylib.current_version"),
      U32("dylib.compatibility_version")>>

DylibCommand == Hdr \o Dylib

SubFrameworkCommand == Hdr \o <<U32("umbrella")>>

SubClientCommand == Hdr \o <<U32("client")>>

SubUmbrellaCommand == Hdr \o <<U32("sub_umbrella")>>

SubLibraryCommand == Hdr \o <<U32("sub_library")>>

PreboundDylibCommand == Hdr \o <<U32("name"), U32("nmodules"), U32("linked_modules")>>

DylinkerCommand == Hdr \o <<U32("name")>>

I386ThreadState ==
    <<U32("thread_state.eax"), U32("thread_state.ebx"), U32("thread_state.ecx"),
      U32("thread_state.edx"), U32("thread_state.edi"), U32("thread_state.esi"),
      U32("thread_state.ebp"), U32("thread_state.esp"), U32("thread_state.ss"),
      U32("thread_state.eflags"), U32("thread_state.eip"), U32("thread_state.cs"),
      U32("thread_state.ds"), U32("thread_state.es"), U32("thread_state.fs"),
      U32("thread_state.gs")>>

ThreadCommand == Hdr \o <<U32("flavor"), U32("count")>> \o I386ThreadState

RoutinesCommand32 ==
    Hdr \o <<U32("init_address"), U32("init_module"), U32("reserved1"),
             U32("reserved2"), U32("reserved3"), U32("reserved4"),
             U32("reserved5"), U32("reserved6")>>

RoutinesCommand64 ==
    Hdr \o <<U64("init_address"), U64("init_module"), U64("reserved1"),
             U64("reserved2"), U64("reserved3"), U64("reserved4"),
             U64("reserved5"), U64("reserved6")>>

SymtabCommand_Misordered ==
    <<U32("cmd"), U32("symoff"), U32("cmdsize"), U32("nsyms"), U32("stroff"),
      U32("strsize")>>
SymtabCommand == Hdr \o <<U32("symoff"), U32("nsyms"), U32("stroff"), U32("strsize")>>

DysymtabCommand ==
    Hdr \o <<U32("ilocalsym"), U32("nlocalsym"), U32("iextdefsym"), U32("nextdefsym"),
             U32("iundefsym"), U32("nundefsym"), U32("tocoff"), U32("ntoc"),
             U32("modtaboff"), U32("nmodtab"), U32("extrefsymoff"),
             U32("nextrefsyms"), U32("indirectsymoff"), U32("nindirectsyms"),
             U32("extreloff"), U32("nextrel"), U32("locreloff"), U32("nlocrel")>>

TwolevelHintsCommand == Hdr \o <<U32("offset"), U32("nhints")>>

PrebindCksumCommand == Hdr \o <<U32("cksum")>>

UuidCommand == Hdr \o <<Arr("uuid", 16)>>

RpathCommand == Hdr \o <<U32("path")>>

LinkeditDataCommand == Hdr \o <<U32("dataoff"), U32("datasize")>>

EncryptionInfoCommand32 == Hdr \o <<U32("cryptoff"), U32("cryptsize"), U32("cryptid")>>

EncryptionInfoCommand64 ==
    Hdr \o <<U32("cryptoff"), U32("cryptsize"), U32("cryptid"), U32("pad")>>

VersionMinCommand == Hdr \o <<U32("version"), U32("sdk")>>

DyldInfoCommand ==
    Hdr \o <<U32("rebase_off"), U32("rebase_size"), U32("bind_off"), U32("bind_size"),
             U32("weak_bind_off"), U32("weak_bind_size"), U32("lazy_bind_off"),
             U32("lazy_bind_size"), U32("export_off"), U32("export_size")>>

LinkerOptionCommand == Hdr \o <<U32("count")>>

SymsegCommand == Hdr \o <<U32("offset"), U32("size")>>

IdentCommand == Hdr

FvmfileCommand == Hdr \o <<U32("name"), U32("header_addr")>>

EntryPointCommand == Hdr \o <<U64("entryoff"), U64("stacksize")>>

SourceVersionCommand == Hdr \o <<U64("version")>>

SIZEOF_LOAD_COMMAND == 8
SIZEOF_SECTION_32 == 68
SIZEOF_SECTION_64 == 80
SIZEOF_SEGMENT_COMMAND_32 == 56
SIZEOF_SEGMENT_COMMAND_64 == 72
SIZEOF_SYMTAB_COMMAND == 24
SIZEOF_LINKER_OPTION_COMMAND == 12

----------------------------------------------------------------------------
(* Load command discriminants (mach-o/loader.h) *)

LC_REQ_DYLD == <<0, 0, 0, 128>>
LC_LOAD_WEAK_DYLIB == BitOr(Word(24, 4), LC_REQ_DYLD)
LC_RPATH == BitOr(Word(28, 4), LC_REQ_DYLD)
LC_REEXPORT_DYLIB == BitOr(Word(31, 4), LC_REQ_DYLD)
LC_DYLD_INFO_ONLY_FlagDropped == Word(34, 4)
LC_DYLD_INFO_ONLY == BitOr(Word(34, 4), LC_REQ_DYLD)
LC_LOAD_UPWARD_DYLIB == BitOr(Word(35, 4), LC_REQ_DYLD)
LC_MAIN == BitOr(Word(40, 4), LC_REQ_DYLD)
LC_SEGMENT == Word(1, 4)
LC_SYMTAB == Word(2, 4)
LC_SYMSEG == Word(3, 4)
LC_THREAD == Word(4, 4)
LC_UNIXTHREAD == Word(5, 4)
LC_LOADFVMLIB == Word(6, 4)
LC_IDFVMLIB == Word(7, 4)
LC_IDENT == Word(8, 4)
LC_FVMFILE == Word(9, 4)
LC_PREPAGE == Word(10, 4)
LC_DYSYMTAB == Word(11, 4)
LC_LOAD_DYLIB == Word(12, 4)
LC_ID_DYLIB == Word(13, 4)
LC_LOAD_DYLINKER == Word(14, 4)
LC_ID_DYLINKER == Word(15, 4)
LC_PREBOUND_DYLIB == Word(16, 4)
LC_ROUTINES == Word(17, 4)
LC_SUB_FRAMEWORK == Word(18, 4)
LC_SUB_UMBRELLA == Word(19, 4)
LC_SUB_CLIENT == Word(20, 4)
LC_SUB_LIBRARY == Word(21, 4)
LC_TWOLEVEL_HINTS == Word(22, 4)
LC_PREBIND_CKSUM == Word(23, 4)
LC_SEGMENT_64 == Word(25, 4)
LC_ROUTINES_64 == Word(26, 4)
LC_UUID == Word(27, 4)
LC_CODE_SIGNATURE == Word(29, 4)
LC_SEGMENT_SPLIT_INFO == Word(30, 4)
LC_LAZY_LOAD_DYLIB == Word(32, 4)
LC_ENCRYPTION_INFO == Word(33, 4)
LC_DYLD_INFO == Word(34, 4)
LC_VERSION_MIN_MACOSX == Word(36, 4)
LC_VERSION_MIN_IPHONEOS == Word(37, 4)
LC_FUNCTION_STARTS == Word(38, 4)
LC_DYLD_ENVIRONMENT == Word(39, 4)
LC_DATA_IN_CODE == Word(41, 4)
LC_SOURCE_VERSION == Word(42, 4)
LC_DYLIB_CODE_SIGN_DRS == Word(43, 4)
LC_ENCRYPTION_INFO_64 == Word(44, 4)
LC_LINKER_OPTION == Word(45, 4)
LC_LINKER_OPTIMIZATION_HINT == Word(46, 4)

DispatchTable ==
    <<
      <<LC_SEGMENT, "Segment32", SegmentCommand32>>,
      <<LC_SEGMENT_64, "Segment64", SegmentCommand64>>,
      <<LC_DYSYMTAB, "Dysymtab", DysymtabCommand>>,
      <<LC_LOAD_DYLINKER, "LoadDylinker", DylinkerCommand>>,
      <<LC_ID_DYLINKER, "IdDylinker", DylinkerCommand>>,
      <<LC_UUID, "Uuid", UuidCommand>>,
      <<LC_SYMTAB, "Symtab", SymtabCommand>>,
      <<LC_SYMSEG, "Symseg", SymsegCommand>>,
      <<LC_THREAD, "Thread", ThreadCommand>>,
      <<LC_UNIXTHREAD, "Unixthread", ThreadCommand>>,
      <<LC_LOADFVMLIB, "LoadFvmlib", FvmlibCommand>>,
      <<LC_IDFVMLIB, "IdFvmlib", FvmlibCommand>>,
      <<LC_IDENT, "Ident", IdentCommand>>,
      <<LC_FVMFILE, "Fvmfile", FvmfileCommand>>,
      <<LC_PREPAGE, "Prepage", LoadCommandHeader>>,
      <<LC_LOAD_DYLIB, "LoadDylib", DylibCommand>>,
      <<LC_ID_DYLIB, "IdDylib", DylibCommand>>,
      <<LC_PREBOUND_DYLIB, "PreboundDylib", PreboundDylibCommand>>,
      <<LC_ROUTINES, "Routines32", RoutinesCommand32>>,
      <<LC_ROUTINES_64, "Routines64", RoutinesCommand64>>,
      <<LC_SUB_FRAMEWORK, "SubFramework", SubFrameworkCommand>>,
      <<LC_SUB_UMBRELLA, "SubUmbrella", SubUmbrellaCommand>>,
      <<LC_SUB_CLIENT, "SubClient", SubClientCommand>>,
      <<LC_SUB_LIBRARY, "SubLibrary", SubLibraryCommand>>,
      <<LC_TWOLEVEL_HINTS, "TwolevelHints", TwolevelHintsCommand>>,
      <<LC_PREBIND_CKSUM, "PrebindCksum", PrebindCksumCommand>>,
      <<LC_LOAD_WEAK_DYLIB, "LoadWeakDylib", DylibCommand>>,
      <<LC_RPATH, "Rpath", RpathCommand>>,
      <<LC_CODE_SIGNATURE, "CodeSignature", LinkeditDataCommand>>,
      <<LC_SEGMENT_SPLIT_INFO, "SegmentSplitInfo", LinkeditDataCommand>>,
      <<LC_REEXPORT_DYLIB, "ReexportDylib", DylibCommand>>,
      <<LC_LAZY_LOAD_DYLIB, "LazyLoadDylib", DylibCommand>>,
      <<LC_ENCRYPTION_INFO, "EncryptionInfo32", EncryptionInfoCommand32>>,
      <<LC_ENCRYPTION_INFO_64, "EncryptionInfo64", EncryptionInfoCommand64>>,
      <<LC_DYLD_INFO, "DyldInfo", DyldInfoCommand>>,
      <<LC_DYLD_INFO_ONLY, "DyldInfoOnly", DyldInfoCommand>>,
      <<LC_LOAD_UPWARD_DYLIB, "LoadUpwardDylib", DylibCommand>>,
      <<LC_VERSION_MIN_MACOSX, "VersionMinMacosx", VersionMinCommand>>,
      <<LC_VERSION_MIN_IPHONEOS, "VersionMinIphoneos", VersionMinCommand>>,
      <<LC_FUNCTION_STARTS, "FunctionStarts", LinkeditDataCommand>>,
      <<LC_DYLD_ENVIRONMENT, "DyldEnvironment", DylinkerCommand>>,
      <<LC_MAIN, "Main", EntryPointCommand>>,
      <<LC_DATA_IN_CODE, "DataInCode", LinkeditDataCommand>>,
      <<LC_SOURCE_VERSION, "SourceVersion", SourceVersionCommand>>,
      <<LC_DYLIB_CODE_SIGN_DRS, "DylibCodeSignDrs", LinkeditDataCommand>>,
      <<LC_LINKER_OPTION, "LinkerOption", LinkeditDataCommand>>,
      <<LC_LINKER_OPTIMIZATION_HINT, "LinkerOptimizationHint", LinkeditDataCommand>>
    >>

----------------------------------------------------------------------------
(* CommandVariant::try_from_ctx, CommandVariant::cmd / cmdsize, LoadCommand::parse *)

\* The arm of `match lc.cmd` in a table of arms: the first entry with that
\* discriminant, or the `_` arm.
ArmOf(table, cmd) ==
    IF \E i \in 1..Len(table) : table[i][1] = cmd
    THEN LET i == CHOOSE j \in 1..Len(table) :
                    /\ table[j][1] = cmd
                    /\ \A k \in 1..(j - 1) : table[k][1] # cmd
         IN  [variant |-> table[i][2], layout |-> table[i][3]]
    ELSE [variant |-> "Unimplemented", layout |-> LoadCommandHeader]

ArmOrIdent(arm) ==
    IF arm.variant = "Unimplemented"
    THEN [variant |-> "Ident", layout |-> IdentCommand] ELSE arm

Dispatch_UnknownAsIdent(cmd) == ArmOrIdent(ArmOf(DispatchTable, cmd))
Dispatch(cmd) == ArmOf(DispatchTable, cmd)

\* The arms of `match cmd` in cmd_to_str, in order: the discriminant and its name.
CmdToStrNames ==
    <<
      <<LC_SEGMENT, "LC_SEGMENT">>,
      <<LC_SYMTAB, "LC_SYMTAB">>,
      <<LC_SYMSEG, "LC_SYMSEG">>,
      <<LC_THREAD, "LC_THREAD">>,
      <<LC_UNIXTHREAD, "LC_UNIXTHREAD">>,
      <<LC_LOADFVMLIB, "LC_LOADFVMLIB">>,
      <<LC_IDFVMLIB, "LC_IDFVMLIB">>,
      <<LC_IDENT, "LC_IDENT">>,
      <<LC_FVMFILE, "LC_FVMFILE">>,
      <<LC_PREPAGE, "LC_PREPAGE">>,
      <<LC_DYSYMTAB, "LC_DYSYMTAB">>,
      <<LC_LOAD_DYLIB, "LC_LOAD_DYLIB">>,
      <<LC_ID_DYLIB, "LC_ID_DYLIB">>,
      <<LC_LOAD_DYLINKER, "LC_LOAD_DYLINKER">>,
      <<LC_ID_DYLINKER, "LC_ID_DYLINKER">>,
      <<LC_PREBOUND_DYLIB, "LC_PREBOUND_DYLIB">>,
      <<LC_ROUTINES, "LC_ROUTINES">>,
      <<LC_SUB_FRAMEWORK, "LC_SUB_FRAMEWORK">>,
      <<LC_SUB_UMBRELLA, "LC_SUB_UMBRELLA">>,
      <<LC_SUB_CLIENT, "LC_SUB_CLIENT">>,
      <<LC_SUB_LIBRARY, "LC_SUB_LIBRARY">>,
      <<LC_TWOLEVEL_HINTS, "LC_TWOLEVEL_HINTS">>,
      <<LC_PREBIND_CKSUM, "LC_PREBIND_CKSUM">>,
      <<LC_LOAD_WEAK_DYLIB, "LC_LOAD_WEAK_DYLIB">>,
      <<LC_SEGMENT_64, "LC_SEGMENT_64">>,
      <<LC_ROUTINES_64, "LC_ROUTINES_64">>,
      <<LC_UUID, "LC_UUID">>,
      <<LC_RPATH, "LC_RPATH">>,
      <<LC_CODE_SIGNATURE, "LC_CODE_SIGNATURE">>,
      <<LC_SEGMENT_SPLIT_INFO, "LC_SEGMENT_SPLIT_INFO">>,
      <<LC_REEXPORT_DYLIB, "LC_REEXPORT_DYLIB">>,
      <<LC_LAZY_LOAD_DYLIB, "LC_LAZY_LOAD_DYLIB">>,
      <<LC_ENCRYPTION_INFO, "LC_ENCRYPTION_INFO">>,
      <<LC_DYLD_INFO, "LC_DYLD_INFO">>,
      <<LC_DYLD_INFO_ONLY, "LC_DYLD_INFO_ONLY">>,
      <<LC_LOAD_UPWARD_DYLIB, "LC_LOAD_UPWARD_DYLIB">>,
      <<LC_VERSION_MIN_MACOSX, "LC_VERSION_MIN_MACOSX">>,
      <<LC_VERSION_MIN_IPHONEOS, "LC_VERSION_MIN_IPHONEOS">>,
      <<LC_FUNCTION_STARTS, "LC_FUNCTION_STARTS">>,
      <<LC_DYLD_ENVIRONMENT, "LC_DYLD_ENVIRONMENT">>,
      <<LC_MAIN, "LC_MAIN">>,
      <<LC_DATA_IN_CODE, "LC_DATA_IN_CODE">>,
      <<LC_SOURCE_VERSION, "LC_SOURCE_VERSION">>,
      <<LC_DYLIB_CODE_SIGN_DRS, "LC_DYLIB_CODE_SIGN_DRS">>,
      <<LC_ENCRYPTION_INFO_64, "LC_ENCRYPTION_INFO_64">>,
      <<LC_LINKER_OPTION, "LC_LINKER_OPTION">>,
      <<LC_LINKER_OPTIMIZATION_HINT, "LC_LINKER_OPTIMIZATION_HINT">>
    >>

\* cmd_to_str: the name of the first arm with that discriminant, or the `_` arm
CmdToStr_HintMissing(cmd) ==
    IF cmd # LC_LINKER_OPTIMIZATION_HINT
         /\ \E i \in 1..Len(CmdToStrNames) : CmdToStrNames[i][1] = cmd
    THEN CmdToStrNames[CHOOSE j \in 1..Len(CmdToStrNames) :
                          /\ CmdToStrNames[j][1] = cmd
                          /\ \A k \in 1..(j - 1) : CmdToStrNames[k][1] # cmd][2]
    ELSE "LC_UNKNOWN"
CmdToStr(cmd) ==
    IF \E i \in 1..Len(CmdToStrNames) : CmdToStrNames[i][1] = cmd
    THEN CmdToStrNames[CHOOSE j \in 1..Len(CmdToStrNames) :
                          /\ CmdToStrNames[j][1] = cmd
                          /\ \A k \in 1..(j - 1) : CmdToStrNames[k][1] # cmd][2]
    ELSE "LC_UNKNOWN"

\* `size > bytes.len()` with size = lc.cmdsize as usize
SizeExceeds_PastHeader(cmdsize, len) == ToNat(cmdsize) > len + SIZEOF_LOAD_COMMAND
SizeExceeds(cmdsize, len) == ToNat(cmdsize) > len

Max(a, b) == IF a > b THEN a ELSE b

\* The arm taken: `let comm = bytes.pread_with::<Layout>(0, le)?; Ok((Variant(comm), size))`,
\* or `Ok((Unimplemented(lc.clone()), size))`; comm is the result of the arm's read.
ArmResult_HeaderOnFailure(lc, arm, comm) ==
    IF ~comm.ok
    THEN [kind |-> "Ok", variant |-> "Unimplemented", comm |-> lc.val,
          size |-> ToNat(lc.val.cmdsize), used |-> lc.used]
    ELSE [kind |-> "Ok", variant |-> arm.variant, comm |-> comm.val,
          size |-> ToNat(lc.val.cmdsize), used |-> Max(comm.used, lc.used)]
ArmResult(lc, arm, comm) ==
    IF ~comm.ok
    THEN [kind |-> "Scroll", used |-> Max(comm.used, lc.used)]
    ELSE [kind |-> "Ok", variant |-> arm.variant, comm |-> comm.val,
          size |-> ToNat(lc.val.cmdsize), used |-> Max(comm.used, lc.used)]

MatchCmd(s, le, lc, arm) ==
    ArmResult(lc, arm,
              IF arm.variant = "Unimplemented" THEN lc ELSE ReadStruct(s, arm.layout, le))

\* The body of try_from_ctx once the header read lc was attempted.
AfterHeader_SizeUnchecked(s, le, lc) ==
    IF ~lc.ok THEN [kind |-> "Scroll", used |-> lc.used]
    ELSE MatchCmd(s, le, lc, Dispatch(lc.val.cmd))
AfterHeader(s, le, lc) ==
    IF ~lc.ok THEN [kind |-> "Scroll", used |-> lc.used]
    ELSE IF SizeExceeds(lc.val.cmdsize, Len(s))
    THEN [kind |-> "Malformed", cmd |-> lc.val.cmd, cmdsize |-> lc.val.cmdsize,
          avail |-> Len(s), used |-> lc.used]
    ELSE MatchCmd(s, le, lc, Dispatch(lc.val.cmd))

\* CommandVariant::try_from_ctx(bytes, le) on the slice s.  The result is
\*   [kind |-> "Ok", variant, comm, size]             the decoded variant and its size,
\*   [kind |-> "Malformed", cmd, cmdsize, avail]      the size check failed,
\*   [kind |-> "Scroll"]                              a fixed-size read failed;
\* used is the number of bytes of s that were read (counted from its start).
TryFromCtx(s, le) == AfterHeader(s, le, ReadStruct(s, LoadCommandHeader, le))

\* the layout of a variant's struct
LayoutOf(table, variant) ==
    IF variant = "Unimplemented" THEN LoadCommandHeader
    ELSE table[CHOOSE i \in 1..Len(table) : table[i][2] = variant][3]

\* CommandVariant::cmdsize and CommandVariant::cmd: every arm returns the field of
\* the decoded struct.
CmdsizeOf_Static(command) == LayoutSize(LayoutOf(DispatchTable, command.variant))
CmdsizeOf(command) == ToNat(command.comm.cmdsize)
CmdOf(command) == command.comm.cmd

\* bytes.pread_with::<CommandVariant>(start, le)
PreadCommand(b, start, le) ==
    IF start >= Len(b) THEN [kind |-> "Scroll", used |-> 0]
    ELSE TryFromCtx(SliceFrom(b, start), le)

\* `let size = command.cmdsize(); *offset = start + size;`
Advance_HeaderExcluded(start, command) == start + SIZEOF_LOAD_COMMAND + CmdsizeOf(command)
Advance(start, command) == start + CmdsizeOf(command)

\* `Ok(LoadCommand { offset: start, command: command })`
Parsed(start, r, command) ==
    [kind |-> "Ok",
     lc |-> [offset |-> start, command |-> command],
     consumed |-> r.size,
     cursor |-> Advance(start, command),
     hi |-> start + r.used]

\* The rest of parse once the read r at start was attempted: the result, and the
\* cursor after it.  consumed is the size try_from_ctx reported; hi is the end of
\* the bytes read.
AfterPread_CursorPastRefused(start, r) ==
    IF r.kind = "Ok"
    THEN Parsed(start, r, [variant |-> r.variant, comm |-> r.comm])
    ELSE IF r.kind = "Malformed"
    THEN [kind |-> "Malformed", cmd |-> r.cmd, cmdsize |-> r.cmdsize,
          avail |-> r.avail, cursor |-> start + SIZEOF_LOAD_COMMAND,
          hi |-> start + r.used]
    ELSE [kind |-> "Scroll", cursor |-> start, hi |-> start + r.used]
AfterPread(start, r) ==
    IF r.kind = "Ok"
    THEN Parsed(start, r, [variant |-> r.variant, comm |-> r.comm])
    ELSE IF r.kind = "Malformed"
    THEN [kind |-> "Malformed", cmd |-> r.cmd, cmdsize |-> r.cmdsize,
          avail |-> r.avail, cursor |-> start, hi |-> start + r.used]
    ELSE [kind |-> "Scroll", cursor |-> start, hi |-> start + r.used]

\* LoadCommand::parse(bytes, &mut offset, le)
ParseResult(b, start, le) == AfterPread(start, PreadCommand(b, start, le))

----------------------------------------------------------------------------
(* The load-command table walked by successive LoadCommand::parse calls *)

VARIABLES
    bytes,      \* the caller's buffer
    le,         \* the caller's byte order (scroll::Endian)
    offset,     \* the caller's cursor, passed to parse as &mut usize
    log,        \* one entry per parse call: the cursor on entry and the result
                \* (for a segment: the result of one call of sections())
    recs,       \* the records the buffer was laid out from (input bookkeeping)
    segcmd,     \* the SegmentCommand32 / SegmentCommand64 handed to the constructor
    segment,    \* the generalized Segment built from it, or the panic
    back,       \* the width-specific record converted back from the Segment, or the
                \* result of writing the Segment back
    section,    \* the generalized Section whose relocations are iterated, or the
                \* Section read straight from a section record
    iters,      \* the iterators made (of a section's relocations, of a segment's
                \* sections), each with the items it yielded
    elf,        \* the parsed ELF file: its header and its section headers
    arm         \* the results of the Arm extension calls made on it

None == [kind |-> "None"]

vars == <<bytes, le, offset, log, recs, segcmd, segment, back, section, iters, elf, arm>>

\* the bound on the number of parse calls, and on the records after the first
MaxCalls == 3
MaxFollowers == 1

\* the integer v as it is stored in a buffer of byte order e
EncInt(v, e) == IF e = Little THEN v ELSE Rev(v)

\* payload bytes: non-zero and position dependent
Filler(i) == ((i * 7) % 251) + 1

\* The image of one record: the 8-byte header (cmd, declared size) followed by
\* phys - 8 payload bytes.
Image(cmd, size, phys, e, at) ==
    EncInt(cmd, e) \o EncInt(size, e) \o [i \in 1..(phys - 8) |-> Filler(at + i)]

UnknownCmd == Word(47, 4)
UnknownReqCmd == BitOr(Word(153, 4), LC_REQ_DYLD)

\* discriminants of the first record: every discriminant of the dispatch table
\* with the variant of its arm, and two that the table does not hold
FirstKinds ==
    { [cmd |-> DispatchTable[i][1], variant |-> DispatchTable[i][2]] :
        i \in 1..Len(DispatchTable) }
    \cup { [cmd |-> UnknownCmd, variant |-> "Unimplemented"],
           [cmd |-> UnknownReqCmd, variant |-> "Unimplemented"] }

\* declared sizes of the first record: below the header size, ordinary, and far
\* above any buffer
DeclaredSizes ==
    { Word(0, 4), Word(4, 4), Word(8, 4), Word(12, 4), Word(24, 4), Word(152, 4),
      <<0, 0, 0, 1>>, <<255, 255, 255, 255>> }

\* the bytes actually laid out for the first record
PhysSizes == {8, 12, 24, 152}

\* well-formed records that may follow the first
FollowerKinds ==
    { [cmd |-> LC_SYMTAB, variant |-> "Symtab", size |-> 24],
      [cmd |-> UnknownCmd, variant |-> "Unimplemented", size |-> 16] }

\* bytes cut off the end of the buffer
Cuts == {0, 1, 76}

RECURSIVE Followers(_)
Followers(n) ==
    IF n = 0 THEN {<<>>}
    ELSE Followers(n - 1)
         \cup {Append(fs, k) : fs \in Followers(n - 1), k \in FollowerKinds}

RECURSIVE Layout(_, _, _)
\* the records of the table with their offsets: first at 0, then the followers
Layout(first, fs, at) ==
    IF fs = <<>> THEN <<>>
    ELSE <<[at |-> at, cmd |-> Head(fs).cmd, size |-> Word(Head(fs).size, 4),
            phys |-> Head(fs).size, variant |-> Head(fs).variant]>>
         \o Layout(first, Tail(fs), at + Head(fs).size)

RECURSIVE Images(_, _)
Images(rs, e) ==
    IF rs = <<>> THEN <<>>
    ELSE Image(Head(rs).cmd, Head(rs).size, Head(rs).phys, e, Head(rs).at)
         \o Images(Tail(rs), e)

InitSeq ==
    /\ le \in Endians
    /\ \E k \in FirstKinds, d \in DeclaredSizes, p \in PhysSizes,
          fs \in Followers(MaxFollowers), cut \in Cuts :
          LET first == [at |-> 0, cmd |-> k.cmd, size |-> d, phys |-> p,
                        variant |-> k.variant]
              rs == <<first>> \o Layout(first, fs, p)
              img == Images(rs, le)
          IN  /\ cut < Len(img)
              /\ recs = rs
              /\ bytes = SubSeq(img, 1, Len(img) - cut)
    /\ offset = 0
    /\ log = <<>>
    /\ segcmd = None /\ segment = None /\ back = None
    /\ section = None /\ iters = <<>>
    /\ elf = None /\ arm = None

\* one call of LoadCommand::parse(bytes, &mut offset, le)
Parse ==
    /\ Len(log) < MaxCalls
    /\ log' = Append(log, [start |-> offset, res |-> ParseResult(bytes, offset, le)])
    /\ offset' = log'[Len(log')].res.cursor
    /\ UNCHANGED <<bytes, le, recs, segcmd, segment, back, section, iters, elf, arm>>

NextSeq == Parse

Spec == InitSeq /\ [][NextSeq]_vars

\* cmd_to_str(command.cmd()) on the record the last parse call decoded
CallCmdToStr ==
    /\ log # <<>>
    /\ log[Len(log)].res.kind = "Ok"
    /\ back = None
    /\ back' = [kind |-> "Name", of |-> Len(log),
                val |-> CmdToStr(CmdOf(log[Len(log)].res.lc.command))]
    /\ UNCHANGED <<bytes, le, offset, log, recs, segcmd, segment, section, iters, elf, arm>>

NextName == Parse \/ CallCmdToStr

\* the table is walked and a decoded record is asked for the name of its kind
SpecName == InitSeq /\ [][NextName]_vars


----------------------------------------------------------------------------
(* Properties of the dispatcher and the sequencer *)

\* the header stored at offset o of the buffer, read in the caller's byte order
HeaderFits(o) == o + 8 <= Len(bytes)
HeaderCmd(o) == ReadInt(bytes, o, 4, le)
HeaderSize(o) == ReadInt(bytes, o + 4, 4, le)
Remaining(o) == Len(bytes) - o
Declared(o) == Low(HeaderSize(o))
DeclaredFits(o) == IsSmall(HeaderSize(o)) /\ Declared(o) <= Remaining(o)

\* the laid-out record that starts at offset o, if any
RecordsAt(o) == {i \in 1..Len(recs) : recs[i].at = o}

\* C1: when the declared size in the header at the start offset exceeds the bytes
\* remaining from that offset, the decode fails as Malformed, whatever the
\* discriminant, and reads no byte at or past the end of the buffer.
C1_OversizeIsMalformed ==
    \A i \in 1..Len(log) :
        LET s == log[i].start IN
        (HeaderFits(s) /\ ~DeclaredFits(s))
            => /\ log[i].res.kind = "Malformed"
               /\ log[i].res.hi <= Len(bytes)

\* C1 witness: after a first record was decoded, the record at the cursor declares
\* one byte more than what remains and is refused as Malformed.
C1_Witness ==
    /\ Len(log) >= 2
    /\ LET s == log[Len(log)].start IN
       /\ s > 0
       /\ HeaderFits(s)
       /\ IsSmall(HeaderSize(s))
       /\ Declared(s) = Remaining(s) + 1
       /\ log[Len(log)].res.kind = "Malformed"

\* C2: a record with an unknown discriminant whose declared size fits decodes as
\* Unimplemented holding only the header, parse advances the cursor by exactly the
\* declared size, and a well-formed record laid out at start + cmdsize decodes to
\* its own variant on the next parse.
C2_UnknownIsSkipped ==
    \A i \in 1..Len(log) :
        LET s == log[i].start IN
        \A n \in RecordsAt(s) :
            (HeaderFits(s) /\ recs[n].variant = "Unimplemented" /\ DeclaredFits(s))
            => /\ log[i].res.kind = "Ok"
               /\ log[i].res.lc.command.variant = "Unimplemented"
               /\ log[i].res.lc.command.comm =
                      [cmd |-> recs[n].cmd, cmdsize |-> recs[n].size]
               /\ log[i].res.cursor = s + Declared(s)
               /\ \A m \in RecordsAt(s + Declared(s)) :
                     (m > 1 /\ recs[m].at + recs[m].phys <= Len(bytes) /\ i < Len(log))
                     => /\ log[i + 1].start = recs[m].at
                        /\ log[i + 1].res.kind = "Ok"
                        /\ log[i + 1].res.lc.offset = recs[m].at
                        /\ log[i + 1].res.lc.command.variant = recs[m].variant
                        /\ log[i + 1].res.lc.command.comm.cmd = recs[m].cmd

\* C2 witness: an unknown record was skipped and the Symtab record after it decoded.
C2_Witness ==
    /\ Len(log) >= 2
    /\ log[1].res.kind = "Ok"
    /\ log[1].res.lc.command.variant = "Unimplemented"
    /\ log[1].res.cursor > 8
    /\ log[2].res.kind = "Ok"
    /\ log[2].res.lc.command.variant = "Symtab"
    /\ log[2].start = log[1].res.cursor

\* C3: every successful decode reports the declared cmdsize as its size, and parse
\* returns the entry cursor as the record's offset and leaves the cursor at
\* entry + cmdsize.
C3_ConsumesDeclaredSize ==
    \A i \in 1..Len(log) :
        LET s == log[i].start IN
        log[i].res.kind = "Ok"
            => /\ IsSmall(HeaderSize(s))
               /\ log[i].res.consumed = Declared(s)
               /\ log[i].res.lc.offset = s
               /\ log[i].res.cursor = s + Declared(s)
               /\ (i < Len(log) => log[i + 1].start = s + Declared(s))
               /\ (i = Len(log) => offset = s + Declared(s))

\* C3 witness: a known record whose declared size differs from its layout's size
\* (a Segment64 of 152 bytes, layout 72) was decoded.
C3_Witness ==
    /\ Len(log) >= 1
    /\ log[1].res.kind = "Ok"
    /\ log[1].res.lc.command.variant = "Segment64"
    /\ log[1].res.consumed = 152
    /\ offset >= 152

\* C4: cmd() and cmdsize() of every decoded variant are the discriminant and the
\* declared size stored in the header at the record's offset.
C4_AgreesWithHeader ==
    \A i \in 1..Len(log) :
        log[i].res.kind = "Ok"
            => LET c == log[i].res.lc.command
                   o == log[i].res.lc.offset
               IN  /\ CmdOf(c) = HeaderCmd(o)
                   /\ CmdsizeOf(c) = Declared(o)
                   /\ IsSmall(HeaderSize(o))

\* C4 witness: a Symtab and a DyldInfoOnly record decoded under the Big byte order.
C4_Witness ==
    /\ le = Big
    /\ Len(log) >= 2
    /\ log[1].res.kind = "Ok"
    /\ log[1].res.lc.command.variant = "DyldInfoOnly"
    /\ log[2].res.kind = "Ok"
    /\ log[2].res.lc.command.variant = "Symtab"

\* C5: a record whose declared size is below the 8-byte header size is refused.
C5_UndersizeIsRefused ==
    \A i \in 1..Len(log) :
        LET s == log[i].start IN
        (HeaderFits(s) /\ IsSmall(HeaderSize(s)) /\ Declared(s) < SIZEOF_LOAD_COMMAND)
            => log[i].res.kind # "Ok"

\* C10: the 176-byte table [Segment64 of 152 bytes, Symtab of 24 bytes] walked by two
\* parse calls from offset 0 gives Segment64 at 0, Symtab at 152, cursor 176.
IsScenario ==
    /\ Len(bytes) = 176
    /\ HeaderCmd(0) = LC_SEGMENT_64 /\ HeaderSize(0) = Word(152, 4)
    /\ HeaderCmd(152) = LC_SYMTAB /\ HeaderSize(152) = Word(SIZEOF_SYMTAB_COMMAND, 4)

C10_Scenario ==
    (IsScenario /\ Len(log) >= 2)
        => /\ log[1].start = 0
           /\ log[1].res.kind = "Ok"
           /\ log[1].res.lc.command.variant = "Segment64"
           /\ log[1].res.lc.offset = 0
           /\ log[2].res.kind = "Ok"
           /\ log[2].res.lc.command.variant = "Symtab"
           /\ log[2].res.lc.offset = 152
           /\ log[2].res.cursor = 176
           /\ (Len(log) = 2 => offset = 176)

C10_Witness == IsScenario /\ Len(log) = 2 /\ offset = 176


\* the table of C10 cut down to its first 100 bytes
IsTruncatedScenario ==
    /\ Len(recs) = 2
    /\ recs[1].cmd = LC_SEGMENT_64 /\ recs[1].size = Word(152, 4) /\ recs[1].phys = 152
    /\ recs[2].cmd = LC_SYMTAB
    /\ Len(bytes) = 100

\* C11: on the 176-byte table [Segment64 of 152 bytes, Symtab] cut to 100 bytes the
\* first decode at offset 0 fails as Malformed and the error reports the declared
\* size 152 against an available space of 92, the 100 bytes less the 8-byte header.
C11_ReportsSpaceAfterHeader ==
    (IsTruncatedScenario /\ Len(log) >= 1)
        => /\ log[1].start = 0
           /\ log[1].res.kind = "Malformed"
           /\ log[1].res.cmd = LC_SEGMENT_64
           /\ log[1].res.cmdsize = Word(152, 4)
           /\ log[1].res.avail = 100 - SIZEOF_LOAD_COMMAND

\* the struct of the kind a discriminant names
KindLayout(cmd) ==
    IF cmd = LC_LINKER_OPTION THEN LinkerOptionCommand ELSE Dispatch(cmd).layout

IsKnownKind(cmd) == \E i \in 1..Len(DispatchTable) : DispatchTable[i][1] = cmd

\* C17: a record of a known kind whose declared size fits in the remaining buffer
\* but whose fixed layout extends past the buffer end, and a position with fewer than
\* 8 bytes remaining for the header, both fail with the error of a fixed-size read,
\* not with Malformed and not with a decoded record.
C17_ShortReadIsDecodeError ==
    \A i \in 1..Len(log) :
        LET s == log[i].start IN
        /\ Remaining(s) < SIZEOF_LOAD_COMMAND => log[i].res.kind = "Scroll"
        /\ (HeaderFits(s) /\ DeclaredFits(s) /\ IsKnownKind(HeaderCmd(s))
              /\ LayoutSize(KindLayout(HeaderCmd(s))) > Remaining(s))
              => log[i].res.kind = "Scroll"

\* C17 witness: an LC_SEGMENT_64 record with cmdsize 8 and fewer than 72 bytes
\* remaining was refused with the read error.
C17_Witness ==
    /\ Len(log) >= 1
    /\ HeaderFits(0)
    /\ HeaderCmd(0) = LC_SEGMENT_64
    /\ HeaderSize(0) = Word(8, 4)
    /\ Len(bytes) < 72
    /\ log[1].res.kind = "Scroll"

\* the discriminant constants, LC_REQ_DYLD being the flag and not a discriminant
Discriminants ==
    { LC_LOAD_WEAK_DYLIB, LC_RPATH, LC_REEXPORT_DYLIB,
      LC_DYLD_INFO_ONLY, LC_LOAD_UPWARD_DYLIB, LC_MAIN,
      LC_SEGMENT, LC_SYMTAB, LC_SYMSEG,
      LC_THREAD, LC_UNIXTHREAD, LC_LOADFVMLIB,
      LC_IDFVMLIB, LC_IDENT, LC_FVMFILE,
      LC_PREPAGE, LC_DYSYMTAB, LC_LOAD_DYLIB,
      LC_ID_DYLIB, LC_LOAD_DYLINKER, LC_ID_DYLINKER,
      LC_PREBOUND_DYLIB, LC_ROUTINES, LC_SUB_FRAMEWORK,
      LC_SUB_UMBRELLA, LC_SUB_CLIENT, LC_SUB_LIBRARY,
      LC_TWOLEVEL_HINTS, LC_PREBIND_CKSUM, LC_SEGMENT_64,
      LC_ROUTINES_64, LC_UUID, LC_CODE_SIGNATURE,
      LC_SEGMENT_SPLIT_INFO, LC_LAZY_LOAD_DYLIB, LC_ENCRYPTION_INFO,
      LC_DYLD_INFO, LC_VERSION_MIN_MACOSX, LC_VERSION_MIN_IPHONEOS,
      LC_FUNCTION_STARTS, LC_DYLD_ENVIRONMENT, LC_DATA_IN_CODE,
      LC_SOURCE_VERSION, LC_DYLIB_CODE_SIGN_DRS, LC_ENCRYPTION_INFO_64,
      LC_LINKER_OPTION, LC_LINKER_OPTIMIZATION_HINT }

HasReqDyld(cmd) == cmd[4] >= 128
LowBits(cmd) == [cmd EXCEPT ![4] = cmd[4] % 128]

\* C18: the discriminant constants are pairwise distinct, their low bits span 0x1
\* through 0x2E, exactly LC_LOAD_WEAK_DYLIB, LC_RPATH, LC_REEXPORT_DYLIB,
\* LC_DYLD_INFO_ONLY, LC_LOAD_UPWARD_DYLIB and LC_MAIN have the bit 0x80000000 set,
\* and a record with discriminant 0x22 decodes as DyldInfo while one with 0x80000022
\* decodes as DyldInfoOnly.
C18_RegistryValues ==
    /\ Cardinality(Discriminants) = 47
    /\ {LowBits(c) : c \in Discriminants} = {Word(n, 4) : n \in 1..46}
    /\ {c \in Discriminants : HasReqDyld(c)} =
          { <<24, 0, 0, 128>>, <<28, 0, 0, 128>>, <<31, 0, 0, 128>>, <<34, 0, 0, 128>>,
            <<35, 0, 0, 128>>, <<40, 0, 0, 128>> }
    /\ \A i \in 1..Len(log) :
          log[i].res.kind = "Ok"
              => /\ HeaderCmd(log[i].start) = <<34, 0, 0, 0>>
                      => log[i].res.lc.command.variant = "DyldInfo"
                 /\ HeaderCmd(log[i].start) = <<34, 0, 0, 128>>
                      => log[i].res.lc.command.variant = "DyldInfoOnly"

\* C18 witness: a record with discriminant 0x80000022 was decoded, under the Big byte
\* order, where the flag is in the first stored byte.
C18_Witness ==
    /\ le = Big
    /\ Len(log) >= 1
    /\ bytes[1] = 128 /\ bytes[4] = 34
    /\ log[1].res.kind = "Ok"
    /\ log[1].res.lc.command.variant = "DyldInfoOnly"
    /\ CmdOf(log[1].res.lc.command) = LC_DYLD_INFO_ONLY

\* the cursor after the i-th parse call: the entry cursor of the next call, or the
\* caller's cursor after the last one
CursorAfter(i) == IF i < Len(log) THEN log[i + 1].start ELSE offset

\* C26: when LoadCommand::parse fails, as Malformed or with a read error, the
\* caller's cursor is left exactly at the value it had on entry; the cursor is
\* written only on success.
C26_FailureKeepsCursor ==
    \A i \in 1..Len(log) :
        log[i].res.kind # "Ok" => CursorAfter(i) = log[i].start

\* C26 witness: after a first record was decoded, parse failed as Malformed and, in
\* another call, with a read error, at a cursor past the start of the buffer.
C26_Witness ==
    /\ Len(log) = 3
    /\ log[1].res.kind = "Ok"
    /\ log[2].start > 0
    /\ log[2].res.kind = "Malformed"
    /\ log[3].start = log[2].start
    /\ offset = log[2].start

\* C27: after any sequence of parse calls on one buffer from a cursor inside the
\* buffer the cursor never exceeds the buffer length: each successful parse leaves
\* cursor = start + cmdsize <= bytes.len(), and the cursor never decreases.
C27_CursorStaysInBuffer ==
    /\ offset <= Len(bytes)
    /\ \A i \in 1..Len(log) :
          /\ log[i].start <= CursorAfter(i)
          /\ CursorAfter(i) <= Len(bytes)
          /\ log[i].res.kind = "Ok"
                => /\ IsSmall(HeaderSize(log[i].start))
                   /\ CursorAfter(i) = log[i].start + Declared(log[i].start)

\* C27 witness: two records were decoded and the cursor stands exactly at the end of
\* the buffer, where a further parse failed and left it.
C27_Witness ==
    /\ Len(log) = 3
    /\ log[1].res.kind = "Ok" /\ log[2].res.kind = "Ok"
    /\ log[2].start > 0
    /\ log[3].start = Len(bytes)
    /\ log[3].res.kind = "Scroll"
    /\ offset = Len(bytes)

\* C30: the name table and the dispatch table cover the same discriminants:
\* cmd_to_str(c) is "LC_UNKNOWN" exactly when a well-formed record with discriminant
\* c decodes to CommandVariant::Unimplemented.
C30_NamedIffDispatched ==
    back.kind = "Name" =>
        (back.val = "LC_UNKNOWN")
            <=> (log[back.of].res.lc.command.variant = "Unimplemented")

\* C30 witness: a record with a discriminant outside the registry that has the
\* LC_REQ_DYLD bit set was decoded as Unimplemented and named LC_UNKNOWN.
C30_Witness ==
    /\ back.kind = "Name"
    /\ back.val = "LC_UNKNOWN"
    /\ HeaderCmd(log[back.of].start) = UnknownReqCmd
    /\ log[back.of].res.lc.command.variant = "Unimplemented"

\* C24: a record of a known kind whose declared size equals the layout size of its
\* own kind and which exactly fills the remaining buffer decodes successfully to
\* the variant of its kind; in particular an LC_LINKER_OPTION record of
\* SIZEOF_LINKER_OPTION_COMMAND = 12 bytes at the end of the buffer decodes as
\* LinkerOption.
C24_ExactFitDecodes ==
    \A i \in 1..Len(log) :
        LET s == log[i].start IN
        (HeaderFits(s) /\ IsKnownKind(HeaderCmd(s)) /\ IsSmall(HeaderSize(s))
           /\ Declared(s) = LayoutSize(KindLayout(HeaderCmd(s)))
           /\ Remaining(s) = Declared(s))
            => /\ log[i].res.kind = "Ok"
               /\ log[i].res.lc.command.variant = Dispatch(HeaderCmd(s)).variant

----------------------------------------------------------------------------
(* Segment::from_32 / Segment::from_64 and the conversions back (segment.rs;  *)
(* load_command.rs holds the same two constructors)                           *)

\* container::Ctx: the container (Little = 32-bit, Big = 64-bit) and byte order
Ctx(container, e) == [container |-> container, le |-> e]

\* impl SizeWith<container::Ctx> for Segment
SegmentSizeWith(ctx) ==
    IF ctx.container = Little THEN SIZEOF_SEGMENT_COMMAND_32
    ELSE SIZEOF_SEGMENT_COMMAND_64

\* &b[from..to]: the slice, or the panic of an out-of-range index
Slice(b, from, to) ==
    IF from > to \/ to > Len(b) THEN [kind |-> "Panic"]
    ELSE [kind |-> "Slice", from |-> from, to |-> to, data |-> SubSeq(b, from + 1, to)]

\* `v as usize` on a target whose usize has usizeBytes bytes
AsUsize(v, usizeBytes) ==
    ToNat(IF Len(v) > usizeBytes THEN SubSeq(v, 1, usizeBytes) ELSE v)

\* `&bytes[segment.fileoff as usize..(segment.fileoff + segment.filesize) as usize]`
\* The sum is computed in the width of the record's fields; where it overflows, a
\* build with overflow checks panics and a build without them wraps.
DataSlice(b, fileoff, filesize, checked, usizeBytes) ==
    LET sum == WrappingAdd(fileoff, filesize) IN
    IF sum.carry # 0 /\ checked THEN [kind |-> "Panic"]
    ELSE Slice(b, AsUsize(fileoff, usizeBytes), AsUsize(sum.sum, usizeBytes))

\* Segment::from_32(bytes, segment, offset, ctx)
SegmentFrom32(b, sc, off, ctx, checked, usizeBytes) ==
    LET data == DataSlice(b, sc.fileoff, sc.filesize, checked, usizeBytes) IN
    IF data.kind = "Panic" THEN [kind |-> "Panic"]
    ELSE [kind     |-> "Segment",
          cmd      |-> sc.cmd,
          cmdsize  |-> sc.cmdsize,
          segname  |-> sc.segname,
          vmaddr   |-> Widen(sc.vmaddr),
          vmsize   |-> Widen(sc.vmsize),
          fileoff  |-> Widen(sc.fileoff),
          filesize |-> Widen(sc.filesize),
          maxprot  |-> sc.maxprot,
          initprot |-> sc.initprot,
          nsects   |-> sc.nsects,
          flags    |-> sc.flags,
          data     |-> data,
          offset   |-> off,
          ctx      |-> ctx]

\* Segment::from_64(bytes, segment, offset, ctx)
SegmentFrom64(b, sc, off, ctx, checked, usizeBytes) ==
    LET data == DataSlice(b, sc.fileoff, sc.filesize, checked, usizeBytes) IN
    IF data.kind = "Panic" THEN [kind |-> "Panic"]
    ELSE [kind     |-> "Segment",
          cmd      |-> sc.cmd,
          cmdsize  |-> sc.cmdsize,
          segname  |-> sc.segname,
          vmaddr   |-> sc.vmaddr,
          vmsize   |-> sc.vmsize,
          fileoff  |-> sc.fileoff,
          filesize |-> sc.filesize,
          maxprot  |-> sc.maxprot,
          initprot |-> sc.initprot,
          nsects   |-> sc.nsects,
          flags    |-> sc.flags,
          data     |-> data,
          offset   |-> off,
          ctx      |-> ctx]

\* impl From<Segment> for SegmentCommand32
SegmentCommand32From_ProtSwapped(sg) ==
    [cmd      |-> sg.cmd,
     cmdsize  |-> sg.cmdsize,
     segname  |-> sg.segname,
     vmaddr   |-> Truncate(sg.vmaddr),
     vmsize   |-> Truncate(sg.vmsize),
     fileoff  |-> Truncate(sg.fileoff),
     filesize |-> Truncate(sg.filesize),
     maxprot  |-> sg.initprot,
     initprot |-> sg.maxprot,
     nsects   |-> sg.nsects,
     flags    |-> sg.flags]
SegmentCommand32From(sg) ==
    [cmd      |-> sg.cmd,
     cmdsize  |-> sg.cmdsize,
     segname  |-> sg.segname,
     vmaddr   |-> Truncate(sg.vmaddr),
     vmsize   |-> Truncate(sg.vmsize),
     fileoff  |-> Truncate(sg.fileoff),
     filesize |-> Truncate(sg.filesize),
     maxprot  |-> sg.maxprot,
     initprot |-> sg.initprot,
     nsects   |-> sg.nsects,
     flags    |-> sg.flags]

\* impl From<Segment> for SegmentCommand64
SegmentCommand64From(sg) ==
    [cmd      |-> sg.cmd,
     cmdsize  |-> sg.cmdsize,
     segname  |-> sg.segname,
     vmaddr   |-> sg.vmaddr,
     vmsize   |-> sg.vmsize,
     fileoff  |-> sg.fileoff,
     filesize |-> sg.filesize,
     maxprot  |-> sg.maxprot,
     initprot |-> sg.initprot,
     nsects   |-> sg.nsects,
     flags    |-> sg.flags]

\* #[derive(Pwrite)]: the bytes of the fields, in order, in byte order e
RECURSIVE Encode(_, _, _, _)
Encode(layout, val, e, i) ==
    IF i > Len(layout) THEN <<>>
    ELSE (IF layout[i][3] THEN EncInt(val[layout[i][1]], e) ELSE val[layout[i][1]])
         \o Encode(layout, val, e, i + 1)

\* bytes.pwrite_with::<T>(val, 0, e) with T a #[derive(Pwrite)] struct: the fields
\* are written in order, each with a bounds-checked gwrite_with, so the fields that
\* fit are written also when a later one does not
Pwrite(dst, layout, val, e) ==
    [ok |-> Len(dst) > 0 /\ FieldsRead(layout, Len(dst), 1) = Len(layout),
     bytes |-> Encode(SubSeq(layout, 1, FieldsRead(layout, Len(dst), 1)), val, e, 1)
               \o SubSeq(dst, SumWidths(layout, FieldsRead(layout, Len(dst), 1)) + 1,
                         Len(dst))]

\* Segment::new(ctx, sections)
SegmentNew(ctx, sections) ==
    [kind     |-> "Segment",
     cmd      |-> IF ctx.container = Big THEN LC_SEGMENT_64 ELSE LC_SEGMENT,
     cmdsize  |-> Word(SegmentSizeWith(ctx) + Len(sections), 4),
     segname  |-> Zeros(16),
     vmaddr   |-> Zeros(8),
     vmsize   |-> Zeros(8),
     fileoff  |-> Zeros(8),
     filesize |-> Zeros(8),
     maxprot  |-> Zeros(4),
     initprot |-> Zeros(4),
     nsects   |-> Zeros(4),
     flags    |-> Zeros(4),
     data     |-> [kind |-> "Slice", from |-> 0, to |-> Len(sections), data |-> sections],
     offset   |-> 0,
     ctx      |-> ctx]

\* the result of try_into_ctx once the pwrite_with w was attempted
Written(w, segment_size) ==
    IF w.ok THEN [kind |-> "Ok", size |-> segment_size, bytes |-> w.bytes]
    ELSE [kind |-> "Err", bytes |-> w.bytes]

\* impl TryIntoCtx<container::Ctx> for Segment: segment.try_into_ctx(dst, ctx)
SegmentTryIntoCtx(sg, dst, ctx) ==
    Written(IF ctx.container = Big
            THEN Pwrite(dst, SegmentCommand64, SegmentCommand64From(sg), ctx.le)
            ELSE Pwrite(dst, SegmentCommand32, SegmentCommand32From(sg), ctx.le),
            SegmentSizeWith(ctx))

\* the length of the file buffer of the segment runs
FileLen == 16

SegName == [i \in 1..16 |-> IF i <= 6 THEN 94 + i ELSE 0]

\* values of fileoff and filesize, as naturals and as words near the top of the range
OffWords(w) ==
    { Word(0, w), Word(4, w), Word(FileLen, w), Word(FileLen + 1, w),
      [i \in 1..w |-> 255], [i \in 1..w |-> IF i = 1 THEN 252 ELSE 255],
      [i \in 1..w |-> IF i = 5 THEN 1 ELSE 0] }
SizeWords(w) ==
    { Word(0, w), Word(4, w), Word(12, w), Word(FileLen, w), Word(FileLen + 1, w),
      [i \in 1..w |-> 255], [i \in 1..w |-> IF i = 5 THEN 1 ELSE 0] }
AddrWords(w) == { Word(4096, w), [i \in 1..w |-> 255] }

SegCmds(w) ==
    { [width |-> w,
       cmd |-> IF w = 4 THEN LC_SEGMENT ELSE LC_SEGMENT_64,
       cmdsize |-> Word(IF w = 4 THEN SIZEOF_SEGMENT_COMMAND_32
                        ELSE SIZEOF_SEGMENT_COMMAND_64, 4),
       segname |-> SegName,
       vmaddr |-> va, vmsize |-> Word(8192, w), fileoff |-> fo, filesize |-> fs,
       maxprot |-> Word(7, 4), initprot |-> Word(5, 4), nsects |-> Word(0, 4),
       flags |-> Word(4, 4)] :
      va \in AddrWords(w), fo \in OffWords(w), fs \in SizeWords(w) }

\* the width-specific record without the bookkeeping field
Fields(sc) == [f \in DOMAIN sc \ {"width"} |-> sc[f]]

InitSeg ==
    /\ le \in Endians
    /\ bytes = [i \in 1..FileLen |-> Filler(i)]
    /\ segcmd \in SegCmds(4) \cup SegCmds(8)
    /\ segment = None
    /\ back = None
    /\ offset = 0 /\ log = <<>> /\ recs = <<>>
    /\ section = None /\ iters = <<>>
    /\ elf = None /\ arm = None

\* Segment::from_32 on a SegmentCommand32, in a build with or without overflow
\* checks, for a 32-bit or a 64-bit usize
From32 ==
    /\ segment = None
    /\ segcmd.width = 4
    /\ \E checked \in BOOLEAN, usizeBytes \in {4, 8} :
          segment' = SegmentFrom32(bytes, Fields(segcmd), offset, Ctx(Little, le),
                                   checked, usizeBytes)
    /\ UNCHANGED <<bytes, le, offset, log, recs, segcmd, back, section, iters, elf, arm>>

\* Segment::from_64 on a SegmentCommand64
From64 ==
    /\ segment = None
    /\ segcmd.width = 8
    /\ \E checked \in BOOLEAN, usizeBytes \in {4, 8} :
          segment' = SegmentFrom64(bytes, Fields(segcmd), offset, Ctx(Big, le),
                                   checked, usizeBytes)
    /\ UNCHANGED <<bytes, le, offset, log, recs, segcmd, back, section, iters, elf, arm>>

\* SegmentCommand32::from(segment)
Into32 ==
    /\ segment.kind = "Segment"
    /\ back = None
    /\ back' = [kind |-> "SegmentCommand32", val |-> SegmentCommand32From(segment)]
    /\ UNCHANGED <<bytes, le, offset, log, recs, segcmd, segment, section, iters, elf, arm>>

\* SegmentCommand64::from(segment)
Into64 ==
    /\ segment.kind = "Segment"
    /\ back = None
    /\ back' = [kind |-> "SegmentCommand64", val |-> SegmentCommand64From(segment)]
    /\ UNCHANGED <<bytes, le, offset, log, recs, segcmd, segment, section, iters, elf, arm>>

\* the marshalled sections handed to Segment::new: none, one Section32, one Section64
NewSections ==
    { <<>>, [i \in 1..SIZEOF_SECTION_32 |-> Filler(i)],
      [i \in 1..SIZEOF_SECTION_64 |-> Filler(i)] }

\* Segment::new(ctx, sections)
New ==
    /\ segment = None
    /\ \E c \in {Little, Big}, sections \in NewSections :
          segment' = SegmentNew(Ctx(c, le), sections)
    /\ UNCHANGED <<bytes, le, offset, log, recs, segcmd, back, section, iters, elf, arm>>

\* segment.try_into_ctx(dst, segment.ctx) on a destination of exactly cmdsize bytes
WriteBack ==
    /\ segment.kind = "Segment"
    /\ back = None
    /\ back' = [kind |-> "Written",
                res |-> SegmentTryIntoCtx(segment, Zeros(ToNat(segment.cmdsize)),
                                          segment.ctx)]
    /\ UNCHANGED <<bytes, le, offset, log, recs, segcmd, segment, section, iters, elf, arm>>

NextSeg == From32 \/ From64 \/ Into32 \/ Into64

SpecSeg == InitSeg /\ [][NextSeg]_vars

\* segments made of a record or made new, written back
NextWrite == From32 \/ From64 \/ New \/ WriteBack

SpecWrite == InitSeg /\ [][NextWrite]_vars

\* the record's data range [fileoff, fileoff + filesize) neither overflows the
\* record's width nor leaves the buffer
RangeInBuffer ==
    /\ WrappingAdd(segcmd.fileoff, segcmd.filesize).carry = 0
    /\ IsSmall(segcmd.fileoff) /\ IsSmall(segcmd.filesize)
    /\ Low(segcmd.fileoff) + Low(segcmd.filesize) <= Len(bytes)

\* C6: constructing a Segment from a record whose data range overflows or is not
\* inside the buffer fails closed with an error value: no panic, and no slice
\* computed from a wrapped-around end offset.
C6_FailsClosed ==
    (segment # None /\ ~RangeInBuffer) => segment.kind = "Err"

\* C7: a SegmentCommand32 whose data range lies in the buffer, converted to the
\* generalized Segment and back, is reproduced in every field.
C7_RoundTrip32 ==
    (segcmd.width = 4 /\ RangeInBuffer /\ back.kind = "SegmentCommand32")
        => back.val = Fields(segcmd)

\* C7 witness: a 32-bit record with a non-empty data range and a vmaddr with the
\* top bit set went through from_32 and back.
C7_Witness ==
    /\ segcmd.width = 4
    /\ segcmd.vmaddr = <<255, 255, 255, 255>>
    /\ Low(segcmd.filesize) > 0
    /\ segment.kind = "Segment"
    /\ segment.data.to > segment.data.from
    /\ back.kind = "SegmentCommand32"


\* C16: re-serializing a generalized segment into a destination of exactly cmdsize
\* bytes succeeds and reports a written length equal to cmdsize.
C16_WritesDeclaredSize ==
    back.kind = "Written"
        => /\ back.res.kind = "Ok"
           /\ back.res.size = ToNat(segment.cmdsize)


----------------------------------------------------------------------------
(* Section::iter_relocations and RelocationIterator::next (segment.rs)        *)

\* mach::relocation::RelocationInfo: the fixed-size relocation record
RelocationInfo == <<U32("r_address"), U32("r_info")>>
SIZEOF_RELOCATION_INFO == 8

\* data.gread_with::<T>(&mut offset, ctx): the value and the advanced offset, or
\* the error with the offset left where it was
Gread(b, o, layout, e) ==
    IF o >= Len(b) THEN [ok |-> FALSE, offset |-> o]
    ELSE LET r == ReadStruct(SliceFrom(b, o), layout, e) IN
         IF r.ok THEN [ok |-> TRUE, val |-> r.val, offset |-> o + r.used]
         ELSE [ok |-> FALSE, offset |-> o]

\* Section::iter_relocations(&self, data, ctx)
IterRelocations_ContainerAsOrder(sect, ctx) ==
    [offset  |-> ToNat(sect.reloff),
     nrelocs |-> ToNat(sect.nreloc),
     count   |-> 0,
     ctx     |-> ctx.container]
IterRelocations(sect, ctx) ==
    [offset  |-> ToNat(sect.reloff),
     nrelocs |-> ToNat(sect.nreloc),
     count   |-> 0,
     ctx     |-> ctx.le]

\* RelocationIterator::next: the iterator after the pull and the item pulled
RelocationNext_OneTooMany(it, data) ==
    IF it.count > it.nrelocs THEN [it |-> it, item |-> [kind |-> "None"]]
    ELSE LET r == Gread(data, it.offset, RelocationInfo, it.ctx) IN
         IF r.ok
         THEN [it |-> [it EXCEPT !.count = it.count + 1, !.offset = r.offset],
               item |-> [kind |-> "Ok", val |-> r.val, at |-> it.offset]]
         ELSE [it |-> [it EXCEPT !.count = it.count + 1],
               item |-> [kind |-> "Err"]]
RelocationNext(it, data) ==
    IF it.count >= it.nrelocs THEN [it |-> it, item |-> [kind |-> "None"]]
    ELSE LET r == Gread(data, it.offset, RelocationInfo, it.ctx) IN
         IF r.ok
         THEN [it |-> [it EXCEPT !.count = it.count + 1, !.offset = r.offset],
               item |-> [kind |-> "Ok", val |-> r.val, at |-> it.offset]]
         ELSE [it |-> [it EXCEPT !.count = it.count + 1],
               item |-> [kind |-> "Err"]]

\* bounds of the relocation runs: iterators made of one section, pulls of each
MaxIters == 2
MaxPulls == 4

BufLens == {0, 8, 20, 24, 40}
RelOffs == {Word(0, 4), Word(8, 4), Word(12, 4), Word(40, 4), <<255, 255, 255, 255>>}
NRelocs == {Word(0, 4), Word(1, 4), Word(2, 4), Word(3, 4), <<255, 255, 255, 255>>}

\* a generalized Section (segment.rs) with the given relocation table
SectionWith(reloff, nreloc) ==
    [sectname |-> SegName, segname |-> SegName, addr |-> Word(4096, 8),
     size |-> Word(16, 8), offset |-> Word(0, 4), align |-> Word(2, 4),
     reloff |-> reloff, nreloc |-> nreloc, flags |-> Word(0, 4)]

InitRel ==
    /\ le \in Endians
    /\ \E n \in BufLens : bytes = [i \in 1..n |-> Filler(i)]
    /\ \E ro \in RelOffs, nr \in NRelocs : section = SectionWith(ro, nr)
    /\ iters = <<>>
    /\ offset = 0 /\ log = <<>> /\ recs = <<>>
    /\ segcmd = None /\ segment = None /\ back = None
    /\ elf = None /\ arm = None

\* section.iter_relocations(bytes, ctx)
NewIter ==
    /\ Len(iters) < MaxIters
    /\ \E c \in {Little, Big} :
          iters' = Append(iters, [it |-> IterRelocations(section, Ctx(c, le)),
                                  out |-> <<>>])
    /\ UNCHANGED <<bytes, le, offset, log, recs, segcmd, segment, back, section, elf, arm>>

\* one pull on iterator i
Pull(i) ==
    /\ Len(iters[i].out) < MaxPulls
    /\ LET r == RelocationNext(iters[i].it, bytes) IN
       iters' = [iters EXCEPT ![i] = [it |-> r.it, out |-> Append(@.out, r.item)]]
    /\ UNCHANGED <<bytes, le, offset, log, recs, segcmd, segment, back, section, elf, arm>>

NextRel == NewIter \/ \E i \in 1..Len(iters) : Pull(i)

SpecRel == InitRel /\ [][NextRel]_vars

\* the section's relocation table: nreloc records from reloff, all inside the buffer
RelocWellFormed ==
    /\ IsSmall(section.reloff) /\ IsSmall(section.nreloc)
    /\ Low(section.reloff) + Low(section.nreloc) * SIZEOF_RELOCATION_INFO <= Len(bytes)

\* the relocation record stored at offset o of the buffer
RelocAt(o) ==
    [r_address |-> ReadInt(bytes, o, 4, le), r_info |-> ReadInt(bytes, o + 4, 4, le)]

\* C8: for a well-formed section the relocation iterator yields exactly nreloc Ok
\* items, item k read at reloff + k * sizeof(RelocationInfo) (k from 0), and None on
\* every later pull, whatever bytes remain in the buffer after the table.
C8_YieldsDeclaredCount ==
    RelocWellFormed =>
        \A i \in 1..Len(iters) :
            \A k \in 1..Len(iters[i].out) :
                LET item == iters[i].out[k]
                    at == Low(section.reloff) + (k - 1) * SIZEOF_RELOCATION_INFO
                IN  IF k <= Low(section.nreloc)
                    THEN /\ item.kind = "Ok"
                         /\ item.at = at
                         /\ item.val = RelocAt(at)
                    ELSE item.kind = "None"

\* C8 witness: two records were yielded and then None, with bytes left in the
\* buffer after the table.
C8_Witness ==
    /\ RelocWellFormed
    /\ Low(section.nreloc) = 2
    /\ Low(section.reloff) + 2 * SIZEOF_RELOCATION_INFO < Len(bytes)
    /\ \E i \in 1..Len(iters) :
          /\ Len(iters[i].out) = 4
          /\ iters[i].out[2].kind = "Ok"
          /\ iters[i].out[3].kind = "None"
          /\ iters[i].out[4].kind = "None"

\* C9: an Err item is the last item of the sequence: every later pull gives None.
C9_ErrIsLast ==
    \A i \in 1..Len(iters) :
        \A k \in 1..Len(iters[i].out) :
            iters[i].out[k].kind = "Err"
                => \A j \in (k + 1)..Len(iters[i].out) : iters[i].out[j].kind = "None"

\* the items two iterators have both yielded are the same
SamePrefix(a, b) ==
    \A k \in 1..Len(a) : k <= Len(b) => a[k] = b[k]

----------------------------------------------------------------------------
(* Sections of a segment: impl IntoIterator for &Segment, SectionIterator::next *)
(* and TryFromCtx<container::Ctx> for Section (segment.rs); Section with its    *)
(* data field and SectionIterator (load_command.rs)                             *)

\* impl From<Section32> for Section and impl From<Section64> for Section
SectionFrom32(s) ==
    [sectname |-> s.sectname,
     segname  |-> s.segname,
     addr     |-> Widen(s.addr),
     size     |-> Widen(s.size),
     offset   |-> s.offset,
     align    |-> s.align,
     reloff   |-> s.reloff,
     nreloc   |-> s.nreloc,
     flags    |-> s.flags]

SectionFrom64_SectnameTwice(s) ==
    [sectname |-> s.sectname,
     segname  |-> s.sectname,
     addr     |-> s.addr,
     size     |-> s.size,
     offset   |-> s.offset,
     align    |-> s.align,
     reloff   |-> s.reloff,
     nreloc   |-> s.nreloc,
     flags    |-> s.flags]
SectionFrom64(s) ==
    [sectname |-> s.sectname,
     segname  |-> s.segname,
     addr     |-> s.addr,
     size     |-> s.size,
     offset   |-> s.offset,
     align    |-> s.align,
     reloff   |-> s.reloff,
     nreloc   |-> s.nreloc,
     flags    |-> s.flags]

\* impl From<Section> for Section64 and impl From<Section> for Section32
Section64From(sect) ==
    [sectname |-> sect.sectname,
     segname  |-> sect.segname,
     addr     |-> Widen(sect.addr),
     size     |-> Widen(sect.size),
     offset   |-> sect.offset,
     align    |-> sect.align,
     reloff   |-> sect.reloff,
     nreloc   |-> sect.nreloc,
     flags    |-> sect.flags,
     reserved1 |-> Word(0, 4),
     reserved2 |-> Word(0, 4),
     reserved3 |-> Word(0, 4)]

Section32From(sect) ==
    [sectname |-> sect.sectname,
     segname  |-> sect.segname,
     addr     |-> Truncate(sect.addr),
     size     |-> Truncate(sect.size),
     offset   |-> sect.offset,
     align    |-> sect.align,
     reloff   |-> sect.reloff,
     nreloc   |-> sect.nreloc,
     flags    |-> sect.flags,
     reserved1 |-> Word(0, 4),
     reserved2 |-> Word(0, 4)]

\* the width-specific section record read by one pread_with, made a Section
Widened(r, from64) ==
    IF ~r.ok THEN [ok |-> FALSE]
    ELSE [ok |-> TRUE,
          val |-> IF from64 THEN SectionFrom64(r.val) ELSE SectionFrom32(r.val),
          size |-> IF from64 THEN SIZEOF_SECTION_64 ELSE SIZEOF_SECTION_32]

\* impl TryFromCtx<container::Ctx> for Section (segment.rs)
SectionTryFromCtx(s, ctx) ==
    IF ctx.container = Little
    THEN Widened(ReadStruct(s, Section32, ctx.le), FALSE)
    ELSE Widened(ReadStruct(s, Section64, ctx.le), TRUE)

\* impl IntoIterator for &Segment: the SectionIterator over segment.raw_data
IntoIter(sg) ==
    [count  |-> ToNat(sg.nsects),
     offset |-> sg.offset + SegmentSizeWith(sg.ctx),
     idx    |-> 0,
     ctx    |-> sg.ctx]

\* `&self.data[section.offset as usize..][..section.size as usize]` on a target
\* whose usize has usizeBytes bytes: each of the two index operations panics when
\* its bound lies outside the slice it indexes
SectionData(b, sect, usizeBytes) ==
    IF ToNat(sect.offset) > Len(b) THEN [kind |-> "Panic"]
    ELSE IF AsUsize(sect.size, usizeBytes) > Len(b) - ToNat(sect.offset)
    THEN [kind |-> "Panic"]
    ELSE Slice(b, ToNat(sect.offset), ToNat(sect.offset) + AsUsize(sect.size, usizeBytes))

\* the arm of `match self.data.gread_with::<Section>(&mut self.offset, self.ctx)`
\* taken for the read r of the record at offset at
SectionItem(b, r, at, usizeBytes) ==
    IF ~r.ok THEN [kind |-> "Err"]
    ELSE IF SectionData(b, r.val, usizeBytes).kind = "Panic" THEN [kind |-> "Panic"]
    ELSE [kind |-> "Ok", section |-> r.val, at |-> at,
          data |-> SectionData(b, r.val, usizeBytes)]

\* data.gread_with::<Section>(&mut offset, ctx)
GreadSection(b, o, ctx) ==
    IF o >= Len(b) THEN [ok |-> FALSE] ELSE SectionTryFromCtx(SliceFrom(b, o), ctx)

\* SectionIterator::next (segment.rs): the iterator after the pull and the item
SectionPulled(it, b, r, usizeBytes) ==
    [it |-> [it EXCEPT !.idx = it.idx + 1,
                       !.offset = IF r.ok THEN it.offset + r.size ELSE it.offset],
     item |-> SectionItem(b, r, it.offset, usizeBytes)]

SectionNext(it, b, usizeBytes) ==
    IF it.idx >= it.count THEN [it |-> it, item |-> [kind |-> "None"]]
    ELSE SectionPulled(it, b, GreadSection(b, it.offset, it.ctx), usizeBytes)

\* impl ExactSizeIterator for SectionIterator (segment.rs): len()
SectionIteratorLen(it) == it.count

\* the body of the `for` loop of Segment::sections on the pull p: `section?` returns
\* the error, a panic unwinds, an item is pushed and the loop goes on
RECURSIVE SectionsLoop(_, _, _, _)
SectionsLoop(p, b, usizeBytes, acc) ==
    IF p.item.kind = "None" THEN [kind |-> "Ok", sections |-> acc]
    ELSE IF p.item.kind = "Err" THEN [kind |-> "Err"]
    ELSE IF p.item.kind = "Panic" THEN [kind |-> "Panic"]
    ELSE SectionsLoop(SectionNext(p.it, b, usizeBytes), b, usizeBytes,
                      Append(acc, p.item))

\* Segment::sections
Sections(sg, b, usizeBytes) ==
    SectionsLoop(SectionNext(IntoIter(sg), b, usizeBytes), b, usizeBytes, <<>>)

\* impl TryFromCtx<Section32> for Section and impl TryFromCtx<Section64> for Section
\* (load_command.rs): the fields of the record and `data: bytes`
LcSectionFrom32(data, s) ==
    [sectname |-> s.sectname,
     segname  |-> s.segname,
     addr     |-> Widen(s.addr),
     size     |-> Widen(s.size),
     offset   |-> s.offset,
     align    |-> s.align,
     reloff   |-> s.reloff,
     nreloc   |-> s.nreloc,
     flags    |-> s.flags,
     data     |-> data]

LcSectionFrom64(data, s) ==
    [sectname |-> s.sectname,
     segname  |-> s.segname,
     addr     |-> s.addr,
     size     |-> s.size,
     offset   |-> s.offset,
     align    |-> s.align,
     reloff   |-> s.reloff,
     nreloc   |-> s.nreloc,
     flags    |-> s.flags,
     data     |-> data]

LcWidened(data, r, from64) ==
    IF ~r.ok THEN [kind |-> "Err"]
    ELSE [kind |-> "Ok",
          section |-> IF from64 THEN LcSectionFrom64(data, r.val)
                      ELSE LcSectionFrom32(data, r.val)]

\* impl TryFromCtx<container::Ctx> for Section (load_command.rs) on the slice
\* &b[o..], whose extent in b is data
LcSectionTryFromCtx(s, data, ctx) ==
    IF ctx.container = Little
    THEN LcWidened(data, ReadStruct(s, Section32, ctx.le), FALSE)
    ELSE LcWidened(data, ReadStruct(s, Section64, ctx.le), TRUE)

\* b.pread_with::<load_command::Section>(o, ctx)
LcSectionPread(b, o, ctx) ==
    IF o >= Len(b) THEN [kind |-> "Err"]
    ELSE LcSectionTryFromCtx(SliceFrom(b, o), Slice(b, o, Len(b)), ctx)

\* data.gread_with::<load_command::Section>(&mut offset, ctx): the offset after it
LcGreadOffset(b, o, ctx) ==
    IF LcSectionPread(b, o, ctx).kind = "Ok"
    THEN o + (IF ctx.container = Little THEN SIZEOF_SECTION_32 ELSE SIZEOF_SECTION_64)
    ELSE o

\* SectionIterator::next (load_command.rs): the iterator after the pull and the item
LcSectionNext(it, b) ==
    IF it.count >= it.count THEN [it |-> it, item |-> [kind |-> "None"]]
    ELSE [it |-> [it EXCEPT !.idx = it.idx + 1,
                            !.offset = LcGreadOffset(b, it.offset, it.ctx)],
          item |-> LcSectionPread(b, it.offset, it.ctx)]

\* the bound on the section records laid out after a segment command
MaxSections == 2

SectName == [i \in 1..16 |-> IF i <= 6 THEN 64 + i ELSE 0]
OtherSegName == [i \in 1..16 |-> IF i <= 5 THEN 110 + i ELSE 0]

\* the bytes of section contents laid out after the section records: fewer than a
\* section record, so that a record read from there does not fit
SectDataLen == 8

\* kinds of section records: where the contents range [offset, offset + size) lies
\* relative to the buffer, and whether segname is that of the segment
SectShapes ==
    { "plain", "atEnd", "emptyAtEnd", "sizePastEnd", "offsetPastEnd", "offsetMax",
      "sizeHuge", "otherSegment" }

ShapeOffset(shape, start, len) ==
    IF shape \in {"atEnd", "sizePastEnd"} THEN Word(len - 4, 4)
    ELSE IF shape = "emptyAtEnd" THEN Word(len, 4)
    ELSE IF shape = "offsetPastEnd" THEN Word(len + 1, 4)
    ELSE IF shape = "offsetMax" THEN <<255, 255, 255, 255>>
    ELSE Word(start, 4)

ShapeSize(shape, w) ==
    IF shape \in {"emptyAtEnd", "offsetPastEnd"} THEN Word(0, w)
    ELSE IF shape = "sizePastEnd" THEN Word(8, w)
    ELSE IF shape = "sizeHuge"
    THEN (IF w = 4 THEN <<255, 255, 255, 255>> ELSE <<4, 0, 0, 0, 1, 0, 0, 0>>)
    ELSE Word(4, w)

\* the Section32 (w = 4) or Section64 (w = 8) record of a shape
SectRecord(shape, w, start, len) ==
    LET base == [sectname |-> SectName,
                 segname |-> IF shape = "otherSegment" THEN OtherSegName ELSE SegName,
                 addr |-> [i \in 1..w |-> IF i = w THEN 128 ELSE 16],
                 size |-> ShapeSize(shape, w),
                 offset |-> ShapeOffset(shape, start, len),
                 align |-> Word(2, 4), reloff |-> Word(0, 4), nreloc |-> Word(0, 4),
                 flags |-> Word(1024, 4),
                 reserved1 |-> Word(5, 4), reserved2 |-> Word(6, 4)]
    IN  IF w = 4 THEN base
        ELSE [f \in DOMAIN base \cup {"reserved3"} |->
                 IF f = "reserved3" THEN Word(7, 4) ELSE base[f]]

\* the shapes whose contents range lies outside the buffer for every usize
OutsideShapes == {"sizePastEnd", "offsetPastEnd", "offsetMax"}

\* the shape sequences of at most n records: a record whose range lies outside the
\* buffer is the last one laid out
RECURSIVE ShapeSeqs(_)
ShapeSeqs(n) ==
    IF n = 0 THEN {<<>>}
    ELSE ShapeSeqs(n - 1)
         \cup {Append(ss, sh) :
                 ss \in {t \in ShapeSeqs(n - 1) :
                            /\ Len(t) = n - 1
                            /\ \A i \in 1..Len(t) : t[i] \notin OutsideShapes},
                 sh \in SectShapes}

SectLayout(w) == IF w = 4 THEN Section32 ELSE Section64
SegLayout(w) == IF w = 4 THEN SegmentCommand32 ELSE SegmentCommand64

\* the section records of the shapes ss, laid out from offset first
SectRecs(ss, w, first, len) ==
    [i \in 1..Len(ss) |->
        [at |-> first + (i - 1) * LayoutSize(SectLayout(w)),
         shape |-> ss[i],
         rec |-> SectRecord(ss[i], w, first + Len(ss) * LayoutSize(SectLayout(w)), len)]]

RECURSIVE SectImages(_, _, _)
SectImages(rs, w, e) ==
    IF rs = <<>> THEN <<>>
    ELSE Encode(SectLayout(w), Head(rs).rec, e, 1) \o SectImages(Tail(rs), w, e)

\* the segment command of a segment with n section records that declares nsects
SegCmdWith(w, n, nsects) ==
    [width |-> w,
     cmd |-> IF w = 4 THEN LC_SEGMENT ELSE LC_SEGMENT_64,
     cmdsize |-> Word(LayoutSize(SegLayout(w)) + n * LayoutSize(SectLayout(w)), 4),
     segname |-> SegName,
     vmaddr |-> Word(4096, w), vmsize |-> Word(8192, w),
     fileoff |-> Word(0, w), filesize |-> Word(0, w),
     maxprot |-> Word(7, 4), initprot |-> Word(5, 4), nsects |-> nsects,
     flags |-> Word(4, 4)]

DeclaredCounts(n) == {Word(0, 4), Word(n, 4), Word(n + 1, 4), <<255, 255, 255, 255>>}

InitSect ==
    /\ le \in Endians
    /\ offset \in {0, 8}
    /\ \E w \in {4, 8}, ss \in ShapeSeqs(MaxSections) :
       \E nsects \in DeclaredCounts(Len(ss)) :
          LET first == offset + LayoutSize(SegLayout(w))
              len == first + Len(ss) * LayoutSize(SectLayout(w)) + SectDataLen
          IN  /\ segcmd = SegCmdWith(w, Len(ss), nsects)
              /\ recs = SectRecs(ss, w, first, len)
              /\ bytes = [i \in 1..offset |-> Filler(i)]
                         \o Encode(SegLayout(w), segcmd, le, 1)
                         \o SectImages(recs, w, le)
                         \o [i \in 1..SectDataLen |-> Filler(i + 100)]
    /\ segment = None
    /\ iters = <<>>
    /\ section = None
    /\ log = <<>> /\ back = None
    /\ elf = None /\ arm = None

\* (&segment).into_iter(), the segment's raw_data being the caller's buffer
SectionsOf ==
    /\ segment.kind = "Segment"
    /\ iters = <<>>
    /\ iters' = <<[it |-> IntoIter(segment), out |-> <<>>]>>
    /\ UNCHANGED <<bytes, le, offset, log, recs, segcmd, segment, back, section, elf, arm>>

\* a panic unwinds the caller: nothing is pulled after it
Aborted == \E k \in 1..Len(iters[1].out) : iters[1].out[k].kind = "Panic"

\* one pull on the section iterator, on a target with a 32-bit or a 64-bit usize
NextSection ==
    /\ iters # <<>>
    /\ Len(iters[1].out) < MaxPulls
    /\ ~Aborted
    /\ \E usizeBytes \in {4, 8} :
          iters' = <<[it |-> SectionNext(iters[1].it, bytes, usizeBytes).it,
                      out |-> Append(iters[1].out,
                                     SectionNext(iters[1].it, bytes, usizeBytes).item)]>>
    /\ UNCHANGED <<bytes, le, offset, log, recs, segcmd, segment, back, section, elf, arm>>

\* bytes.pread_with::<load_command::Section>(at, ctx) at a section record
PreadSection ==
    /\ section = None
    /\ \E i \in 1..Len(recs) :
          section' = LcSectionPread(bytes, recs[i].at,
                                    Ctx(IF segcmd.width = 4 THEN Little ELSE Big, le))
    /\ UNCHANGED <<bytes, le, offset, log, recs, segcmd, segment, back, iters, elf, arm>>

NextSect == From32 \/ From64 \/ SectionsOf \/ NextSection \/ PreadSection

SpecSect == InitSect /\ [][NextSect]_vars

\* segment.sections(), on a target with a 32-bit or a 64-bit usize
CallSections ==
    /\ segment.kind = "Segment"
    /\ log = <<>>
    /\ \E usizeBytes \in {4, 8} :
          log' = <<[usizeBytes |-> usizeBytes,
                    res |-> Sections(segment, bytes, usizeBytes)]>>
    /\ UNCHANGED <<bytes, le, offset, recs, segcmd, segment, back, section, iters, elf, arm>>

\* a load_command.rs SectionIterator over the section records of the segment: count
\* is the declared number of sections and offset the end of the segment command
LcSectionsOf ==
    /\ segment.kind = "Segment"
    /\ iters = <<>>
    /\ iters' = <<[it |-> [count |-> ToNat(segment.nsects),
                           offset |-> segment.offset + SegmentSizeWith(segment.ctx),
                           idx |-> 0,
                           ctx |-> segment.ctx],
                   out |-> <<>>]>>
    /\ UNCHANGED <<bytes, le, offset, log, recs, segcmd, segment, back, section, elf, arm>>

\* one pull on the load_command.rs section iterator
LcNextSection ==
    /\ iters # <<>>
    /\ Len(iters[1].out) < MaxPulls
    /\ iters' = <<[it |-> LcSectionNext(iters[1].it, bytes).it,
                   out |-> Append(iters[1].out, LcSectionNext(iters[1].it, bytes).item)]>>
    /\ UNCHANGED <<bytes, le, offset, log, recs, segcmd, segment, back, section, elf, arm>>

NextLcSect == From32 \/ From64 \/ LcSectionsOf \/ LcNextSection

\* a segment is built from its command and its sections are pulled through the
\* load_command.rs iterator
SpecLcSect == InitSect /\ [][NextLcSect]_vars

\* Section::from(record) on one of the laid-out section records
SectionFrom ==
    /\ section = None
    /\ \E i \in 1..Len(recs) :
          section' = [kind |-> "Section", of |-> i,
                      val |-> IF segcmd.width = 4 THEN SectionFrom32(recs[i].rec)
                              ELSE SectionFrom64(recs[i].rec)]
    /\ UNCHANGED <<bytes, le, offset, log, recs, segcmd, segment, back, iters, elf, arm>>

\* Section32::from(section) / Section64::from(section), back to the width it came from
SectionInto ==
    /\ section.kind = "Section"
    /\ back = None
    /\ back' = [kind |-> IF segcmd.width = 4 THEN "Section32" ELSE "Section64",
                val |-> IF segcmd.width = 4 THEN Section32From(section.val)
                        ELSE Section64From(section.val)]
    /\ UNCHANGED <<bytes, le, offset, log, recs, segcmd, segment, section, iters, elf, arm>>

NextRound == SectionFrom \/ SectionInto

\* a section record is converted to the generalized Section and back
SpecRound == InitSect /\ [][NextRound]_vars

NextSections == From32 \/ From64 \/ CallSections

\* a segment is built from its command and asked once for all its sections
SpecSections == InitSect /\ [][NextSections]_vars


----------------------------------------------------------------------------
(* Properties of section iteration *)

\* the declared section records all lie inside the buffer
SectionRecordsInBuffer ==
    /\ IsSmall(segcmd.nsects)
    /\ offset + LayoutSize(SegLayout(segcmd.width))
         + Low(segcmd.nsects) * LayoutSize(SectLayout(segcmd.width)) <= Len(bytes)

\* a laid-out section record with every field at the width of the generalized Section
Generalized(rec) ==
    [f \in {"sectname", "segname", "addr", "size", "offset", "align", "reloff",
            "nreloc", "flags"} |->
        IF f \in {"addr", "size"} THEN rec[f] \o [i \in 1..(8 - Len(rec[f])) |-> 0]
        ELSE rec[f]]

\* C12: iterating the sections of a segment whose nsects section records all lie
\* inside the buffer yields exactly nsects items and then None; item i (from 0) is
\* decoded at segment.offset + S + i * T, (S, T) = (56, 68) for the 32-bit and
\* (72, 80) for the 64-bit width, with every field widened into the Section.
C12_YieldsEverySection ==
    (SectionRecordsInBuffer /\ iters # <<>>) =>
        \A k \in 1..Len(iters[1].out) :
            IF k <= Low(segcmd.nsects)
            THEN /\ iters[1].out[k].kind = "Ok"
                 /\ iters[1].out[k].at =
                       offset + (IF segcmd.width = 4 THEN 56 ELSE 72)
                         + (k - 1) * (IF segcmd.width = 4 THEN 68 ELSE 80)
                 /\ iters[1].out[k].section = Generalized(recs[k].rec)
            ELSE iters[1].out[k].kind = "None"

\* the 16 bytes of the segname field of the section record stored at offset at
StoredSegname(at) == SubSeq(bytes, at + 17, at + 32)

\* C13: every recovered section, of either width, carries as segname the 16 bytes
\* stored in its own section record, also where they differ from the segname of the
\* containing segment.
C13_SegnameIsTheRecords ==
    /\ iters # <<>> =>
          \A k \in 1..Len(iters[1].out) :
              iters[1].out[k].kind = "Ok"
                  => iters[1].out[k].section.segname = StoredSegname(iters[1].out[k].at)
    /\ section.kind = "Ok"
          => section.section.segname = StoredSegname(section.section.data.from)

\* C13 witness: the iterator yielded, and the direct read gave, a section of a 64-bit
\* segment whose stored segname is not the segment's.
C13_Witness ==
    /\ segcmd.width = 8
    /\ iters # <<>>
    /\ \E k \in 1..Len(iters[1].out) :
          /\ iters[1].out[k].kind = "Ok"
          /\ iters[1].out[k].section.segname = OtherSegName
          /\ segment.segname # OtherSegName
    /\ section.kind = "Ok"
    /\ section.section.segname = OtherSegName

\* the contents view v is the sub-slice [sect.offset, sect.offset + sect.size) of the
\* buffer
IsContentsOf(v, sect) ==
    /\ IsSmall(sect.offset) /\ IsSmall(sect.size)
    /\ v.from = Low(sect.offset)
    /\ v.to - v.from = Low(sect.size)
    /\ v.data = SubSeq(bytes, Low(sect.offset) + 1, Low(sect.offset) + Low(sect.size))

\* C14: the contents view of every recovered section is the sub-slice of the buffer
\* at [section.offset, section.offset + section.size), for the data yielded by
\* section iteration (segment.rs) and for the data field of Section (load_command.rs).
C14_ContentsAtOffset ==
    /\ iters # <<>> =>
          \A k \in 1..Len(iters[1].out) :
              iters[1].out[k].kind = "Ok"
                  => IsContentsOf(iters[1].out[k].data, iters[1].out[k].section)
    /\ section.kind = "Ok" => IsContentsOf(section.section.data, section.section)

\* C15: section iteration never aborts: every pull yields Ok, Err or None, and a
\* record that decodes but whose contents range lies outside the buffer gives Err.
C15_NeverAborts ==
    iters # <<>> =>
        \A k \in 1..Len(iters[1].out) :
            /\ iters[1].out[k].kind \in {"Ok", "Err", "None"}
            /\ (k <= Len(recs) /\ recs[k].shape \in OutsideShapes
                  /\ k <= ToNat(segcmd.nsects))
                  => iters[1].out[k].kind = "Err"


----------------------------------------------------------------------------
(* Arm extensions for ELF (src/elf/arm.rs): HeaderExt::arm,                   *)
(* ArmElfHeader::abi_version, ArmSpecialSection::from_sh_type_and_name and    *)
(* ElfExt::aeabi.  A name is the sequence of its characters.                  *)

\* bitwise and of two bytes, and x & y on words of the same width
RECURSIVE AndBits(_, _, _)
AndBits(a, b, n) ==
    IF n = 0 THEN 0
    ELSE (IF a % 2 = 1 /\ b % 2 = 1 THEN 1 ELSE 0)
         + 2 * AndBits(a \div 2, b \div 2, n - 1)

BitAnd(x, y) == [i \in 1..Len(x) |-> AndBits(x[i], y[i], 8)]

\* x >> bits for a whole number of bytes, and `x as u8`
ShiftRight(x, bits) ==
    [i \in 1..Len(x) |-> IF i + (bits \div 8) <= Len(x) THEN x[i + (bits \div 8)] ELSE 0]
AsU8(x) == x[1]

EF_ARM_ABIMASK == <<0, 0, 0, 255>>
EM_ARM == 40

SHT_PROGBITS == Word(1, 4)
SHT_ARM_EXIDX == <<1, 0, 0, 112>>
SHT_ARM_PREEMPTMAP == <<2, 0, 0, 112>>
SHT_ARM_ATTRIBUTES == <<3, 0, 0, 112>>
SHT_ARM_DEBUGOVERLAY == <<4, 0, 0, 112>>
SHT_ARM_OVERLAYSECTION == <<5, 0, 0, 112>>

\* HeaderExt::arm
HeaderArm(h) ==
    IF h.e_machine = EM_ARM
    THEN [kind |-> "Some", e_entry_mod_4 |-> h.e_entry[1] % 4, e_flags |-> h.e_flags]
    ELSE None

\* NonZeroU8::new
NonZeroU8New(b) == IF b = 0 THEN None ELSE [kind |-> "Some", val |-> b]

\* ArmElfHeader::abi_version
AbiVersion_ShiftedBy16(ah) ==
    NonZeroU8New(AsU8(ShiftRight(BitAnd(ah.e_flags, EF_ARM_ABIMASK), 16)))
AbiVersion(ah) ==
    NonZeroU8New(AsU8(ShiftRight(BitAnd(ah.e_flags, EF_ARM_ABIMASK), 24)))

\* ArmElfHeader::entrypoint_contents
EntrypointContents_TwoIsThumb(ah) ==
    IF ah.e_entry_mod_4 = 0 THEN "Arm"
    ELSE IF ah.e_entry_mod_4 \in {1, 2, 3} THEN "Thumb"
    ELSE "Reserved"
EntrypointContents(ah) ==
    IF ah.e_entry_mod_4 = 0 THEN "Arm"
    ELSE IF ah.e_entry_mod_4 \in {1, 3} THEN "Thumb"
    ELSE "Reserved"

StartsWith(name, prefix) ==
    Len(name) >= Len(prefix) /\ SubSeq(name, 1, Len(prefix)) = prefix

\* The arms of the match in from_sh_type_and_name, in order: whether the name is
\* matched as a prefix (the arm's guard) or whole, the name, the section type and
\* the kind of special section.
ArmSpecialSections ==
    << <<TRUE, <<".", "A", "R", "M", ".", "e", "x", "i", "d", "x">>, SHT_ARM_EXIDX, "IndexForExceptionUnwinding">>,
       <<TRUE, <<".", "A", "R", "M", ".", "e", "x", "t", "a", "b">>, SHT_PROGBITS, "ExceptionUnwindingTable">>,
       <<FALSE, <<".", "A", "R", "M", ".", "p", "r", "e", "e", "m", "p", "t", "m", "a", "p">>, SHT_ARM_PREEMPTMAP, "PreemptionMap">>,
       <<FALSE, <<".", "A", "R", "M", ".", "a", "t", "t", "r", "i", "b", "u", "t", "e", "s">>, SHT_ARM_ATTRIBUTES, "BuildAttributes">>,
       <<FALSE, <<"A", "R", "M", ".", "d", "e", "b", "u", "g", "_", "o", "v", "e", "r", "l", "a", "y">>, SHT_ARM_DEBUGOVERLAY, "DebugOverlay">>,
       <<FALSE, <<"A", "R", "M", ".", "o", "v", "e", "r", "l", "a", "y", "_", "t", "a", "b", "l", "e">>, SHT_ARM_OVERLAYSECTION, "OverlayTable">> >>

ArmMatches(row, sh_type, name) ==
    /\ sh_type = row[3]
    /\ IF row[1] THEN StartsWith(name, row[2]) ELSE name = row[2]

\* ArmSpecialSection::from_sh_type_and_name
FromShTypeAndName(sh_type, name) ==
    IF \E i \in 1..Len(ArmSpecialSections) : ArmMatches(ArmSpecialSections[i], sh_type, name)
    THEN [kind |-> "Some",
          val |-> ArmSpecialSections[
                      CHOOSE i \in 1..Len(ArmSpecialSections) :
                          /\ ArmMatches(ArmSpecialSections[i], sh_type, name)
                          /\ \A j \in 1..(i - 1) :
                                ~ArmMatches(ArmSpecialSections[j], sh_type, name)][4]]
    ELSE None

\* usize::try_from(v).ok() on a target whose usize has usizeBytes bytes
TryUsize(v, usizeBytes) ==
    IF \A i \in (usizeBytes + 1)..Len(v) : v[i] = 0
    THEN [kind |-> "Some", val |-> ToNat(v)] ELSE None

\* x.checked_add(y)
CheckedAdd(x, y) ==
    IF WrappingAdd(x, y).carry = 0
    THEN [kind |-> "Some", val |-> WrappingAdd(x, y).sum] ELSE None

\* `.and_then(|end| usize::try_from(end).ok())`
AndThenTryUsize(sum, usizeBytes) ==
    IF sum.kind = "Some" THEN TryUsize(sum.val, usizeBytes) ELSE None

\* `.filter(|end| *end < bytes.len())`
FilterEnd(end, len) ==
    IF end.kind = "Some" /\ end.val < len THEN end ELSE None

\* the closure of `find`: the header's name resolves and names the build attributes
IsBuildAttributes(h) ==
    /\ h.name.kind = "Some"
    /\ FromShTypeAndName(h.sh_type, h.name.val) = [kind |-> "Some", val |-> "BuildAttributes"]

\* self.section_headers.iter().find(..): the index of the first such header, or 0
FindBuildAttributes(shs) ==
    IF \E i \in 1..Len(shs) : IsBuildAttributes(shs[i])
    THEN CHOOSE i \in 1..Len(shs) :
            /\ IsBuildAttributes(shs[i])
            /\ \A j \in 1..(i - 1) : ~IsBuildAttributes(shs[j])
    ELSE 0

\* the match on (start, end): the slice handed to the build-attributes parser, whose
\* verdict is parsed, or SectionHeaderOutOfRange
AeabiOf(b, start, end, parsed) ==
    IF start.kind = "Some" /\ end.kind = "Some"
    THEN [kind |-> IF parsed THEN "Ok" ELSE "InvalidBuildAttributes",
          slice |-> Slice(b, start.val, end.val)]
    ELSE [kind |-> "SectionHeaderOutOfRange"]

AeabiRange(b, h, usizeBytes, parsed) ==
    AeabiOf(b, TryUsize(h.sh_offset, usizeBytes),
            FilterEnd(AndThenTryUsize(CheckedAdd(h.sh_offset, h.sh_size), usizeBytes),
                      Len(b)),
            parsed)

\* ElfExt::aeabi(&self, bytes) for super::Elf
Aeabi(e, b, usizeBytes, parsed) ==
    IF HeaderArm(e.header) = None THEN [kind |-> "NotArmHeader"]
    ELSE IF FindBuildAttributes(e.section_headers) = 0
    THEN [kind |-> "NoBuildAttributesSection"]
    ELSE AeabiRange(b, e.section_headers[FindBuildAttributes(e.section_headers)],
                    usizeBytes, parsed)

NotCalled == [kind |-> "NotCalled"]

\* headers: an Arm and another machine, the four residues of e_entry below and
\* above 2^32, e_flags with
\* and without an ABI version and with the other flag bits clear and set
Machines == {EM_ARM, 62}
EEntries == {Word(32768 + k, 8) : k \in 0..3} \cup {<<k, 0, 0, 0, 0, 0, 0, 255>> : k \in 4..7}
EFlags ==
    { <<0, 0, 0, 0>>, <<255, 255, 255, 0>>, <<0, 4, 0, 5>>, <<0, 2, 128, 5>>,
      <<255, 255, 255, 255>>, <<0, 0, 0, 128>>, <<0, 0, 0, 1>> }

ShOffsets ==
    { Word(0, 8), Word(4, 8), Word(FileLen, 8), Word(FileLen + 1, 8),
      <<0, 0, 0, 0, 1, 0, 0, 0>>, [i \in 1..8 |-> 255] }
ShSizes ==
    { Word(0, 8), Word(4, 8), Word(FileLen - 4, 8), Word(FileLen, 8),
      Word(FileLen + 1, 8), <<0, 0, 0, 0, 1, 0, 0, 0>> }

SectionHeader(name, sh_type, sh_offset, sh_size) ==
    [name |-> name, sh_type |-> sh_type, sh_offset |-> sh_offset, sh_size |-> sh_size]

NameOf(chars) == [kind |-> "Some", val |-> chars]

\* section headers that are not the build attributes: a code section, one with the
\* name but not the type, one with the type but no name in the string table
OtherHeaders ==
    { <<>>,
      <<SectionHeader(NameOf(<<".", "t", "e", "x", "t">>), SHT_PROGBITS, Word(0, 8), Word(4, 8))>>,
      <<SectionHeader(NameOf(<<".", "A", "R", "M", ".", "a", "t", "t", "r", "i", "b", "u", "t", "e", "s">>), SHT_PROGBITS, Word(0, 8), Word(4, 8))>>,
      <<SectionHeader(None, SHT_ARM_ATTRIBUTES, Word(0, 8), Word(4, 8))>> }

AttributesHeaders ==
    { <<>> } \cup
    { <<SectionHeader(NameOf(<<".", "A", "R", "M", ".", "a", "t", "t", "r", "i", "b", "u", "t", "e", "s">>), SHT_ARM_ATTRIBUTES, o, s)>> :
        o \in ShOffsets, s \in ShSizes }

InitArm ==
    /\ bytes = [i \in 1..FileLen |-> Filler(i)]
    /\ le = Little
    /\ \E m \in Machines, en \in EEntries, fl \in EFlags,
          others \in OtherHeaders, attrs \in AttributesHeaders :
          elf = [header |-> [e_machine |-> m, e_entry |-> en, e_flags |-> fl],
                 section_headers |-> others \o attrs]
    /\ arm = [abi_version |-> NotCalled, aeabi |-> NotCalled,
              entrypoint_contents |-> NotCalled]
    /\ offset = 0 /\ log = <<>> /\ recs = <<>>
    /\ segcmd = None /\ segment = None /\ back = None
    /\ section = None /\ iters = <<>>

\* elf.header.arm().map(|h| h.abi_version())
CallAbiVersion ==
    /\ arm.abi_version = NotCalled
    /\ HeaderArm(elf.header) # None
    /\ arm' = [arm EXCEPT !.abi_version =
                  [kind |-> "Returned", val |-> AbiVersion(HeaderArm(elf.header))]]
    /\ UNCHANGED <<bytes, le, offset, log, recs, segcmd, segment, back, section, iters, elf>>

\* elf.aeabi(bytes), on a target with a 32-bit or a 64-bit usize
CallAeabi ==
    /\ arm.aeabi = NotCalled
    /\ \E usizeBytes \in {4, 8}, parsed \in BOOLEAN :
          arm' = [arm EXCEPT !.aeabi =
                     [kind |-> "Returned", usizeBytes |-> usizeBytes,
                      val |-> Aeabi(elf, bytes, usizeBytes, parsed)]]
    /\ UNCHANGED <<bytes, le, offset, log, recs, segcmd, segment, back, section, iters, elf>>

\* elf.header.arm().map(|h| h.entrypoint_contents())
CallEntrypointContents ==
    /\ arm.entrypoint_contents = NotCalled
    /\ arm' = [arm EXCEPT !.entrypoint_contents =
                  [kind |-> "Returned",
                   val |-> IF HeaderArm(elf.header) = None THEN None
                           ELSE [kind |-> "Some",
                                 val |-> EntrypointContents(HeaderArm(elf.header))]]]
    /\ UNCHANGED <<bytes, le, offset, log, recs, segcmd, segment, back, section, iters, elf>>

NextArm == CallAbiVersion \/ CallAeabi \/ CallEntrypointContents

SpecArm == InitArm /\ [][NextArm]_vars

----------------------------------------------------------------------------
(* Properties of the Arm extensions *)

\* the section headers that are the build attributes section
AttributesSections ==
    { i \in 1..Len(elf.section_headers) :
        /\ elf.section_headers[i].name = NameOf(<<".", "A", "R", "M", ".", "a", "t", "t", "r", "i", "b", "u", "t", "e", "s">>)
        /\ elf.section_headers[i].sh_type = SHT_ARM_ATTRIBUTES }

\* sh_offset + sh_size overflows, does not fit in a usize of usizeBytes bytes, or is
\* greater than the length of the buffer
RefersOutside(h, usizeBytes) ==
    \/ WrappingAdd(h.sh_offset, h.sh_size).carry # 0
    \/ \E i \in (usizeBytes + 1)..8 : WrappingAdd(h.sh_offset, h.sh_size).sum[i] # 0
    \/ ToNat(WrappingAdd(h.sh_offset, h.sh_size).sum) > Len(bytes)

\* C19: aeabi returns SectionHeaderOutOfRange exactly when sh_offset + sh_size of the
\* build attributes section overflows, does not fit in usize or is greater than
\* bytes.len(); a section that ends exactly at bytes.len() is not rejected.
C19_OutOfRangeOnlyOutside ==
    (arm.aeabi.kind = "Returned" /\ elf.header.e_machine = 40) =>
        \A i \in AttributesSections :
            (arm.aeabi.val.kind = "SectionHeaderOutOfRange")
                <=> RefersOutside(elf.section_headers[i], arm.aeabi.usizeBytes)

\* C20: abi_version is None exactly when bits 24..31 of e_flags are all zero and
\* otherwise Some of those 8 bits, whatever the other bits of e_flags are.
C20_AbiVersionIsTopByte ==
    arm.abi_version.kind = "Returned"
        => arm.abi_version.val =
              IF elf.header.e_flags[4] = 0 THEN [kind |-> "None"]
              ELSE [kind |-> "Some", val |-> elf.header.e_flags[4]]

\* C20 witness: abi_version returned Some(5) for e_flags = 0x05800200, which has
\* flag bits set below the version.
C20_Witness ==
    /\ elf.header.e_flags = <<0, 2, 128, 5>>
    /\ arm.abi_version = [kind |-> "Returned", val |-> [kind |-> "Some", val |-> 5]]
----------------------------------------------------------------------------
(* Properties of Segment::sections *)

\* the contents range [offset, offset + size) of a laid-out section record lies
\* inside the buffer
ContentsInBuffer(rec) ==
    /\ IsSmall(rec.offset) /\ IsSmall(rec.size)
    /\ Low(rec.offset) + Low(rec.size) <= Len(bytes)

\* every declared section can be retrieved: its record and its contents lie inside
\* the buffer
EverySectionRetrievable ==
    /\ SectionRecordsInBuffer
    /\ \A k \in 1..Low(segcmd.nsects) : ContentsInBuffer(recs[k].rec)

\* C22: Segment::sections() is all-or-nothing: Ok with exactly nsects (section,
\* data) pairs in on-disk order when every section can be retrieved, and otherwise
\* the error of the first section that cannot be retrieved, with no partial list.
C22_AllOrNothing ==
    log # <<>> =>
        IF EverySectionRetrievable
        THEN /\ log[1].res.kind = "Ok"
             /\ Len(log[1].res.sections) = Low(segcmd.nsects)
             /\ \A k \in 1..Len(log[1].res.sections) :
                   /\ log[1].res.sections[k].section = Generalized(recs[k].rec)
                   /\ IsContentsOf(log[1].res.sections[k].data,
                                   log[1].res.sections[k].section)
        ELSE log[1].res = [kind |-> "Err"]
\* the pulls of the section iterator that yielded an item
Yielded == {k \in 1..Len(iters[1].out) : iters[1].out[k].kind \in {"Ok", "Err"}}

\* C28: len() of the segment.rs SectionIterator always equals the number of items
\* the iterator will still yield before returning None: nsects before the first
\* pull, one less with every pull, 0 when the iterator is exhausted.
C28_LenIsRemaining ==
    (iters # <<>> /\ ~Aborted) =>
        /\ SectionIteratorLen(iters[1].it)
              = ToNat(segment.nsects) - Cardinality(Yielded)
        /\ iters[1].out # <<>> /\ iters[1].out[Len(iters[1].out)].kind = "None"
              => SectionIteratorLen(iters[1].it) = 0

\* C29: converting a Section32 (or Section64) to the generalized Section and back to
\* the same width reproduces every field of the original record, including the
\* reserved fields reserved1, reserved2 (and reserved3 for 64-bit).
C29_SectionRoundTrip ==
    back.kind \in {"Section32", "Section64"} => back.val = recs[section.of].rec

\* C23: the load_command.rs SectionIterator yields one decoded section per pull
\* while fewer than count sections have been pulled and returns None only once idx
\* has reached count; with count > 0 and well-formed section records its first pull
\* is Some.
C23_PullsUntilCount ==
    iters # <<>> =>
        /\ \A k \in 1..Len(iters[1].out) :
              (iters[1].out[k].kind = "None") <=> (k > iters[1].it.count)
        /\ (Len(iters[1].out) >= 1 /\ SectionRecordsInBuffer /\ Low(segcmd.nsects) > 0)
              => iters[1].out[1].kind = "Ok"

\* e_entry mod 4: the two low bits of the least significant byte
EntryMod4(h) == h.e_entry[1] % 4

\* C21: HeaderExt::arm returns Some exactly when e_machine = EM_ARM, and for such a
\* header entrypoint_contents depends only on e_entry mod 4: 0 gives Arm, 1 and 3
\* give Thumb, 2 gives Reserved.
C21_EntrypointByResidue ==
    arm.entrypoint_contents.kind = "Returned" =>
        /\ (arm.entrypoint_contents.val.kind = "Some") <=> (elf.header.e_machine = 40)
        /\ elf.header.e_machine = 40 =>
              arm.entrypoint_contents.val.val =
                  CASE EntryMod4(elf.header) = 0 -> "Arm"
                    [] EntryMod4(elf.header) \in {1, 3} -> "Thumb"
                    [] EntryMod4(elf.header) = 2 -> "Reserved"

\* C21 witness: an Arm header whose e_entry is 2 mod 4 above 2^32 was asked for the
\* contents of its entry point and answered Reserved.
C21_Witness ==
    /\ elf.header.e_machine = 40
    /\ elf.header.e_entry = <<6, 0, 0, 0, 0, 0, 0, 255>>
    /\ arm.entrypoint_contents = [kind |-> "Returned", val |-> [kind |-> "Some", val |-> "Reserved"]]

====
